---- MODULE Spec2Model ----
(***************************************************************************)
(* pg_hexedit: the page-stream driver (main, EmitXmlBody, EmitXmlPage) and *)
(* the per-page decoders it sequences (classifier, page header, line       *)
(* pointers, tuples, special section), as a state machine.                 *)
(*                                                                         *)
(* A page is a record of the fields the decoders read: the fixed header,   *)
(* the line pointer array with the tuple each pointer addresses, and the   *)
(* last 16 bytes of the block as eight little-endian uint16 words (every   *)
(* special section the classifier recognises lies in those bytes).         *)
(* Layout figures are those of a build with 8-byte maximum alignment.      *)
(***************************************************************************)
EXTENDS Integers, Sequences, FiniteSets, TLC

(***************************************************************************)
(* Program constants                                                       *)
(***************************************************************************)
BLCKSZ == 8192
SizeOfPageHeaderData == 24
SizeOfItemIdData == 4
MAXIMUM_ALIGNOF == 8
PG_PAGE_LAYOUT_VERSION == 4
SEQUENCE_MAGIC == 5911
MAX_BT_CYCLE_ID == 65407
HASHO_PAGE_ID == 65408
GIST_PAGE_ID == 65409
SPGIST_PAGE_ID == 65410
BRIN_PAGETYPE_META == 61585
BRIN_PAGETYPE_REVMAP == 61586
BRIN_PAGETYPE_REGULAR == 61587
OffsetOfTBits == 23
SizeOfIndexTupleData == 8

\* trailer flag bits
BTP_LEAF == 1
BTP_ROOT == 2
F_LEAF == 1
F_DELETED == 2
GIN_DATA == 1
GIN_LEAF == 2
GIN_DELETED == 4
GIN_COMPRESSED == 128
SPGIST_LEAF == 4
LH_BITMAP_PAGE == 4

\* line pointer states
LP_UNUSED == 0
LP_NORMAL == 1
LP_REDIRECT == 2
LP_DEAD == 3

MAXALIGN(n) == ((n + (MAXIMUM_ALIGNOF - 1)) \div MAXIMUM_ALIGNOF) * MAXIMUM_ALIGNOF

\* (x & bit) != 0 for a single-bit mask
HasBit(x, bit) == (x \div bit) % 2 = 1

(***************************************************************************)
(* Bounds of the model                                                     *)
(***************************************************************************)
\* the file holds at most MaxBlocks whole blocks (a short tail may follow)
MaxBlocks == 2
\* -R start blocks are drawn from 0..MaxStart
MaxStart == 1

(***************************************************************************)
(* Pages                                                                   *)
(***************************************************************************)
\* A tuple as the tuple decoders read it.  Heap tuples use t_hoff,
\* t_infomask (the flag names that are set) and natts; index tuples use
\* t_tid and t_info (size and flag names).  t_bits is the set of the bits
\* that are set in the null bitmap; data holds the bytes after the tuple
\* header, and the bytes that follow them in the block are zero.
HeapTuple(hoff, natts, mask) ==
    [k |-> "heap", t_hoff |-> hoff, natts |-> natts, t_infomask |-> mask,
     t_info_size |-> 0, t_info_flags |-> {},
     t_tid |-> [bi_hi |-> 0, bi_lo |-> 0, ip_posid |-> 1],
     t_bits |-> {}, data |-> <<>>]

IndexTuple(size, flags) ==
    [k |-> "index", t_hoff |-> 0, natts |-> 0, t_infomask |-> {},
     t_info_size |-> size, t_info_flags |-> flags,
     t_tid |-> [bi_hi |-> 0, bi_lo |-> 0, ip_posid |-> 1],
     t_bits |-> {}, data |-> <<>>]

NoTuple == [k |-> "none", t_hoff |-> 0, natts |-> 0, t_infomask |-> {},
            t_info_size |-> 0, t_info_flags |-> {},
            t_tid |-> [bi_hi |-> 0, bi_lo |-> 0, ip_posid |-> 0],
            t_bits |-> {}, data |-> <<>>]

\* One ItemIdData (lp_off, lp_flags, lp_len) and the bytes at lp_off.
ItemId(off, len, flags, tup) ==
    [lp_off |-> off, lp_len |-> len, lp_flags |-> flags, tup |-> tup]

ZeroItemId == ItemId(0, 0, LP_UNUSED, NoTuple)

\* The last 16 bytes of a block as uint16 words; tail[8] is the last word.
ZeroTail == <<0, 0, 0, 0, 0, 0, 0, 0>>
\* a 16-byte opaque struct with flags in its 7th word and page id in its 8th
Tail16(flags, id) == <<0, 0, 0, 0, 0, 0, flags, id>>
\* an 8-byte opaque struct given by its four words
Tail8(h0, h1, h2, h3) == <<0, 0, 0, 0, h0, h1, h2, h3>>

\* ck is how the stored checksum relates to the page: "zero" (never set),
\* "good" (what pg_checksum_page computes where the page is read) or "bad".
Page(lsn, ck, lower, upper, special, size, version, items, tail) ==
    [xlogid |-> lsn[1], xrecoff |-> lsn[2], ck |-> ck, pd_checksum |-> 0,
     pd_lower |-> lower, pd_upper |-> upper, pd_special |-> special,
     pd_pagesize |-> size, pd_version |-> version,
     items |-> items, tail |-> tail, segs |-> <<>>]

ZeroPage == Page(<<0, 0>>, "zero", 0, 0, 0, 0, 0, <<>>, ZeroTail)

\* pd_lsn as stored: <<xlogid, xrecoff>>.  0/1, 0/10 and 1/10.
LsnOld == <<0, 1>>
LsnAt == <<0, 16>>
LsnNew == <<1, 16>>

\* a row-store page with one normal slot: header length 24, no null bitmap,
\* no object id, 8 bytes of payload
HeapPage(bs, lsn, ck) ==
    Page(lsn, ck, 28, bs - 32, bs, bs, PG_PAGE_LAYOUT_VERSION,
         <<ItemId(bs - 32, 32, LP_NORMAL, HeapTuple(24, 2, {}))>>, ZeroTail)

\* a row-store page with one normal slot of lp_len bytes, 96 bytes before
\* the end of the block: a tuple of ten columns with a null bitmap (header
\* length 32) whose set bits are t_bits
NullsPage(bs, t_bits, len) ==
    Page(LsnAt, "zero", 28, bs - 96, bs, bs, PG_PAGE_LAYOUT_VERSION,
         <<ItemId(bs - 96, len, LP_NORMAL,
                  [HeapTuple(32, 10, {"HEAP_HASNULL"}) EXCEPT !.t_bits = t_bits])>>,
         ZeroTail)

\* a page whose line pointers are items, with the tuples in the 96 bytes
\* before the special section or the end of the block
ItemsPage(bs, special, items, tail) ==
    Page(LsnAt, "zero", SizeOfPageHeaderData + (SizeOfItemIdData * Len(items)),
         bs - 96, special, bs, PG_PAGE_LAYOUT_VERSION, items, tail)

\* an index page with a 16-byte special section and one 16-byte index tuple
Index16Page(bs, lsn, flags, id) ==
    Page(lsn, "zero", 28, bs - 32, bs - 16, bs, PG_PAGE_LAYOUT_VERSION,
         <<ItemId(bs - 32, 16, LP_NORMAL, IndexTuple(16, {}))>>,
         Tail16(flags, id))

\* an index page with an 8-byte special section and no line pointers
Index8Page(bs, lsn, h0, h3) ==
    Page(lsn, "zero", 24, bs - 8, bs - 8, bs, PG_PAGE_LAYOUT_VERSION,
         <<>>, Tail8(h0, 0, 0, h3))

\* a page with the given header fields and no line pointer contents
HeaderPage(bs, lower, upper, special, version) ==
    Page(LsnAt, "zero", lower, upper, special, bs, version, <<>>, ZeroTail)

\* a row-store page with two slots: first, and a normal slot whose tuple
\* is the last 32 bytes of the block
TwoSlotsPage(bs, first) ==
    ItemsPage(bs, bs,
        <<first, ItemId(bs - 32, 32, LP_NORMAL, HeapTuple(24, 2, {}))>>,
        ZeroTail)

\* a compressed GIN posting tree leaf page: the posting list segments start
\* at byte 32 and end at pd_lower; segs holds nbytes of each segment, and
\* zero bytes follow the last of them
GinDataLeafPage(bs, lower, segs) ==
    [Page(LsnAt, "zero", lower, bs - 8, bs - 8, bs, PG_PAGE_LAYOUT_VERSION,
          <<>>, Tail8(0, 0, 0, GIN_DATA + GIN_LEAF + GIN_COMPRESSED))
       EXCEPT !.segs = segs]

\* The pages a block of the file may hold, for block size bs.
Pool(bs) ==
    { HeapPage(bs, LsnNew, "good"),
      HeapPage(bs, LsnOld, "zero"),
      HeapPage(bs, LsnAt, "bad"),
      \* ten columns: c3 is NULL; every column but c3 is NULL
      NullsPage(bs, (0..9) \ {3}, 32 + 36),
      NullsPage(bs, {3}, 32 + 8),
      ZeroPage,
      Index16Page(bs, LsnAt, BTP_LEAF, 0),
      Index16Page(bs, LsnAt, BTP_LEAF + BTP_ROOT, 0),
      Index16Page(bs, LsnAt, BTP_ROOT, 0),
      Index16Page(bs, LsnAt, F_LEAF, GIST_PAGE_ID),
      Index16Page(bs, LsnAt, 2, HASHO_PAGE_ID),
      \* a hash bitmap page whose pd_lower is the end of the page header
      ItemsPage(bs, bs - 16, <<>>, Tail16(LH_BITMAP_PAGE, HASHO_PAGE_ID)),
      Index8Page(bs, LsnAt, 0, GIN_LEAF),
      Index8Page(bs, LsnAt, SPGIST_LEAF, SPGIST_PAGE_ID),
      Index8Page(bs, LsnAt, 0, BRIN_PAGETYPE_REGULAR),
      \* a GIN leaf page with one entry tuple: a key of 8 bytes and, from
      \* byte 16 of the tuple, a posting list of 3 items
      ItemsPage(bs, bs - 8,
          <<ItemId(bs - 96, 32, LP_NORMAL,
                   [IndexTuple(32, {}) EXCEPT
                       !.t_tid = [bi_hi |-> 0, bi_lo |-> 16, ip_posid |-> 3]])>>,
          Tail8(0, 0, 0, GIN_LEAF)),
      \* GIN posting tree leaf pages: segments of 6 and 4 bytes of TIDs
      \* (8 + 6 and 8 + 4 bytes) that end at pd_lower, and no segment
      GinDataLeafPage(bs, 32 + 14 + 12, <<6, 4>>),
      GinDataLeafPage(bs, 32, <<>>),
      \* a GIN leaf page whose right link is block 0x1717
      Index8Page(bs, LsnAt, SEQUENCE_MAGIC, GIN_LEAF),
      \* first slots the item loop passes over or refuses, and a dead slot
      \* that has storage
      TwoSlotsPage(bs, ItemId(0, 0, LP_NORMAL, NoTuple)),
      TwoSlotsPage(bs, ItemId(0, 0, LP_DEAD, NoTuple)),
      TwoSlotsPage(bs, ItemId(2, 0, LP_REDIRECT, NoTuple)),
      TwoSlotsPage(bs, ItemId(2, 4, LP_REDIRECT, NoTuple)),
      TwoSlotsPage(bs, ItemId(bs - 96, 32, LP_UNUSED, HeapTuple(24, 2, {}))),
      TwoSlotsPage(bs, ItemId(bs - 96, 32, LP_DEAD, HeapTuple(24, 2, {}))),
      TwoSlotsPage(bs, ItemId(bs - 16, 32, LP_NORMAL, HeapTuple(24, 2, {}))),
      \* a B-tree leaf page with a normal and a dead index tuple
      ItemsPage(bs, bs - 16,
          <<ItemId(bs - 48, 16, LP_NORMAL, IndexTuple(16, {})),
            ItemId(bs - 32, 16, LP_DEAD, IndexTuple(16, {}))>>,
          Tail16(BTP_LEAF, 0)),
      \* row-store pages with one tuple of one column and 8 bytes of data:
      \* a 1-byte varlena header that declares 100 bytes, a 4-byte varlena
      \* header that declares 64 bytes, and 8 bytes without a NUL
      ItemsPage(bs, bs,
          <<ItemId(bs - 32, 32, LP_NORMAL,
                   [HeapTuple(24, 1, {}) EXCEPT !.data = <<201>>])>>, ZeroTail),
      ItemsPage(bs, bs,
          <<ItemId(bs - 32, 32, LP_NORMAL,
                   [HeapTuple(24, 1, {}) EXCEPT !.data = <<0, 1>>])>>, ZeroTail),
      ItemsPage(bs, bs,
          <<ItemId(bs - 32, 32, LP_NORMAL,
                   [HeapTuple(24, 1, {}) EXCEPT
                       !.data = <<65, 66, 67, 68, 69, 70, 71, 72>>])>>,
          ZeroTail),
      \* a 4-byte special section: no recognised variant
      Page(LsnOld, "zero", 24, bs - 4, bs - 4, bs, PG_PAGE_LAYOUT_VERSION,
           <<>>, ZeroTail),
      \* corrupt headers
      HeaderPage(bs, 40, 32, bs, PG_PAGE_LAYOUT_VERSION),
      HeaderPage(bs, bs + 4, bs + 8, bs, PG_PAGE_LAYOUT_VERSION),
      \* more line pointers than the block has bytes
      HeaderPage(bs, (4 * bs) + 28, bs, bs, PG_PAGE_LAYOUT_VERSION),
      HeaderPage(bs, 24, bs - 8, bs + 8, PG_PAGE_LAYOUT_VERSION),
      HeaderPage(bs, 16, bs, bs, PG_PAGE_LAYOUT_VERSION),
      HeaderPage(bs, 24, bs, bs, 3) }

(***************************************************************************)
(* Special section types, options, tags                                    *)
(***************************************************************************)
SPEC_SECT_NONE == "SPEC_SECT_NONE"
SPEC_SECT_SEQUENCE == "SPEC_SECT_SEQUENCE"
SPEC_SECT_INDEX_BTREE == "SPEC_SECT_INDEX_BTREE"
SPEC_SECT_INDEX_HASH == "SPEC_SECT_INDEX_HASH"
SPEC_SECT_INDEX_GIST == "SPEC_SECT_INDEX_GIST"
SPEC_SECT_INDEX_GIN == "SPEC_SECT_INDEX_GIN"
SPEC_SECT_INDEX_SPGIST == "SPEC_SECT_INDEX_SPGIST"
SPEC_SECT_INDEX_BRIN == "SPEC_SECT_INDEX_BRIN"
SPEC_SECT_ERROR_UNKNOWN == "SPEC_SECT_ERROR_UNKNOWN"
SPEC_SECT_ERROR_BOUNDARY == "SPEC_SECT_ERROR_BOUNDARY"

BLOCK_RANGE == "BLOCK_RANGE"
BLOCK_CHECKSUMS == "BLOCK_CHECKSUMS"
BLOCK_ZEROSUMS == "BLOCK_ZEROSUMS"
BLOCK_SKIP_LEAF == "BLOCK_SKIP_LEAF"
BLOCK_SKIP_LSN == "BLOCK_SKIP_LSN"
BLOCK_DECODE == "BLOCK_DECODE"

EOF_ENCOUNTERED == -1

\* uint32 arithmetic
\* Numbers here are below 2^31.  A product of a block size and a block
\* number is taken modulo 2^32 as the code's unsigned int does: block sizes
\* are multiples of 256, so the product is 256 times a product modulo 2^24.
TwoTo24 == 16777216
U32Times(size, count) ==
    ((((size \div 256) * (count % TwoTo24)) % TwoTo24) * 256)

\* One output tag: the decoder that wrote it, its text, first and last byte.
Tag(part, name, s, e) == [part |-> part, name |-> name, s |-> s, e |-> e]

\* Tags for the fields of a fixed-layout struct at base: each field is
\* <<name, offset, offset of the next field>> (EmitXmlTag calls in a row).
FieldTags(part, base, fields) ==
    [i \in 1..Len(fields) |->
        Tag(part, fields[i][1], base + fields[i][2], (base + fields[i][3]) - 1)]

(***************************************************************************)
(* Page accessors (bufpage.h)                                              *)
(***************************************************************************)
\* PageIsNew, had EmitXmlPage decoded every page
PageIsNewNever(page) == FALSE

PageIsNew(page) == page.pd_upper = 0

PageGetMaxOffsetNumber(page) ==
    IF page.pd_lower <= SizeOfPageHeaderData THEN 0
    ELSE (page.pd_lower - SizeOfPageHeaderData) \div SizeOfItemIdData

PageGetItemId(page, offset) ==
    IF offset <= Len(page.items) THEN page.items[offset] ELSE ZeroItemId

\* The i-th uint16 word (from 1) of the special section at pd_special, for a
\* special section that lies in the last 16 bytes of the block.
SpecialWord(page, bs, i) ==
    LET w == ((page.pd_special - (bs - 16)) \div 2) + i
    IN IF w >= 1 /\ w <= 8 THEN page.tail[w] ELSE 0

\* *ptype: the last two bytes of the block
LastWord(page) == page.tail[8]

\* GetPageLsn, had the eight bytes of pd_lsn been read as one little-endian
\* 64-bit number
GetPageLsnRawBytes(page) == <<page.xrecoff, page.xlogid>>

\* A 64-bit LSN is the pair <<high half, low half>>: (high << 32) | low.
\* Pairs compare as the 64-bit numbers do.  PageXLogRecPtrGet takes the
\* high half from pd_lsn.xlogid and the low half from pd_lsn.xrecoff.
GetPageLsn(page) == <<page.xlogid, page.xrecoff>>
LsnLess(a, b) == a[1] < b[1] \/ (a[1] = b[1] /\ a[2] < b[2])
InvalidXLogRecPtr == <<0, 0>>

\* sprintf "%X/%08X" of (uint32) (lsn >> 32) and (uint32) lsn
FormatLsn(lsn) ==
    LET digit == <<"0", "1", "2", "3", "4", "5", "6", "7",
                   "8", "9", "A", "B", "C", "D", "E", "F">>
        RECURSIVE Hex(_, _)
        \* n in hexadecimal, zero-padded to at least width digits
        Hex(n, width) ==
            IF n < 16 /\ width <= 1 THEN digit[n + 1]
            ELSE Hex(n \div 16, width - 1) \o digit[(n % 16) + 1]
    IN Hex(lsn[1], 1) \o "/" \o Hex(lsn[2], 8)

\* pg_checksum_page() of the server: a hash of the block's bytes (the stored
\* checksum field excluded) mixed with the block number, in 1..65535.
pg_checksum_page(page, blkno) ==
    ((page.pd_lower + page.pd_upper + page.pd_special + page.xrecoff + blkno)
        % 65535) + 1

\* The stored checksum of a page found at relation block blkno.
StoredChecksum(page, blkno) ==
    CASE page.ck = "zero" -> 0
      [] page.ck = "good" -> pg_checksum_page(page, blkno)
      [] OTHER -> (pg_checksum_page(page, blkno) % 65535) + 1

(***************************************************************************)
(* Page classifier                                                         *)
(***************************************************************************)
\* sizeof() of the opaque structs
SizeofUint32 == 4
SizeofSpGistPageOpaqueData == 8
SizeofBrinSpecialSpace == 8
SizeofGinPageOpaqueData == 8
SizeofBTPageOpaqueData == 16
SizeofHashPageOpaqueData == 16
SizeofGISTPageOpaqueData == 16

BrinPageType(page, bs) == SpecialWord(page, bs, 4)

IsBrinPage(page, bytesToFormat, bs) ==
    IF bytesToFormat # bs THEN FALSE
    ELSE BrinPageType(page, bs) \in
            {BRIN_PAGETYPE_META, BRIN_PAGETYPE_REVMAP, BRIN_PAGETYPE_REGULAR}

GetSpecialSectionType(page, bytesToFormat, bs) ==
    IF bytesToFormat > SizeOfPageHeaderData
    THEN
        LET specialOffset == page.pd_special
            specialSize == bs - specialOffset
            ptype == LastWord(page)
            \* the uint32 at the special offset, as its low and high words
            specialValue == <<SpecialWord(page, bs, 1), SpecialWord(page, bs, 2)>>
        IN
        IF (specialOffset = 0) \/ (specialOffset > bs)
              \/ (specialOffset > bytesToFormat)
        THEN SPEC_SECT_ERROR_BOUNDARY
        ELSE IF specialSize = 0 THEN SPEC_SECT_NONE
        ELSE IF specialSize = MAXALIGN(SizeofUint32)
        THEN
            IF bytesToFormat = bs
            THEN
                IF specialValue = <<SEQUENCE_MAGIC, 0>> THEN SPEC_SECT_SEQUENCE
                ELSE IF specialSize = MAXALIGN(SizeofSpGistPageOpaqueData)
                        /\ ptype = SPGIST_PAGE_ID
                THEN SPEC_SECT_INDEX_SPGIST
                ELSE IF specialSize = MAXALIGN(SizeofBrinSpecialSpace)
                        /\ IsBrinPage(page, bytesToFormat, bs)
                THEN SPEC_SECT_INDEX_BRIN
                ELSE IF specialSize = MAXALIGN(SizeofGinPageOpaqueData)
                THEN SPEC_SECT_INDEX_GIN
                ELSE SPEC_SECT_ERROR_UNKNOWN
            ELSE SPEC_SECT_ERROR_UNKNOWN
        ELSE IF specialSize = MAXALIGN(SizeofSpGistPageOpaqueData)
                /\ bytesToFormat = bs /\ ptype = SPGIST_PAGE_ID
        THEN SPEC_SECT_INDEX_SPGIST
        ELSE IF specialSize = MAXALIGN(SizeofBrinSpecialSpace)
                /\ IsBrinPage(page, bytesToFormat, bs)
        THEN SPEC_SECT_INDEX_BRIN
        ELSE IF specialSize = MAXALIGN(SizeofGinPageOpaqueData)
        THEN SPEC_SECT_INDEX_GIN
        ELSE IF specialSize > 2 /\ bytesToFormat = bs
        THEN
            IF ptype <= MAX_BT_CYCLE_ID
                  /\ specialSize = MAXALIGN(SizeofBTPageOpaqueData)
            THEN SPEC_SECT_INDEX_BTREE
            ELSE IF ptype = HASHO_PAGE_ID
                  /\ specialSize = MAXALIGN(SizeofHashPageOpaqueData)
            THEN SPEC_SECT_INDEX_HASH
            ELSE IF ptype = GIST_PAGE_ID
                  /\ specialSize = MAXALIGN(SizeofGISTPageOpaqueData)
            THEN SPEC_SECT_INDEX_GIST
            ELSE SPEC_SECT_ERROR_UNKNOWN
        ELSE SPEC_SECT_ERROR_UNKNOWN
    ELSE SPEC_SECT_ERROR_UNKNOWN

\* flags words of the opaque structs
BTPageFlags(page, bs) == SpecialWord(page, bs, 7)
HashPageFlags(page, bs) == SpecialWord(page, bs, 7)
GistPageFlags(page, bs) == SpecialWord(page, bs, 7)
GinPageFlags(page, bs) == SpecialWord(page, bs, 4)
GinPageMaxoff(page, bs) == SpecialWord(page, bs, 3)
SpGistPageFlags(page, bs) == SpecialWord(page, bs, 1)

IsHashBitmapPage(page, specialType, bytesToFormat, bs) ==
    IF bytesToFormat # bs THEN FALSE
    ELSE IF specialType # SPEC_SECT_INDEX_HASH THEN FALSE
    ELSE HasBit(HashPageFlags(page, bs), LH_BITMAP_PAGE)

IsLeafPage(page, specialType, bs) ==
    IF specialType = SPEC_SECT_INDEX_BTREE
    THEN HasBit(BTPageFlags(page, bs), BTP_LEAF)
            /\ ~HasBit(BTPageFlags(page, bs), BTP_ROOT)
    ELSE IF specialType = SPEC_SECT_INDEX_GIST
    THEN HasBit(GistPageFlags(page, bs), F_LEAF)
    ELSE IF specialType = SPEC_SECT_INDEX_GIN
    THEN HasBit(GinPageFlags(page, bs), GIN_LEAF)
    ELSE IF specialType = SPEC_SECT_INDEX_SPGIST
    THEN HasBit(SpGistPageFlags(page, bs), SPGIST_LEAF)
    ELSE FALSE

(***************************************************************************)
(* Page header decoder                                                     *)
(***************************************************************************)
\* the eight fixed header fields, PageHeaderData layout
\* PageHeaderFields, had the two halves of pd_lsn been two fields
PageHeaderFieldsSplitLsn ==
    << <<"xlogid", 0, 4>>, <<"xrecoff", 4, 8>>, <<"checksum", 8, 10>>,
       <<"pd_flags", 10, 12>>, <<"pd_lower", 12, 14>>, <<"pd_upper", 14, 16>>,
       <<"pd_special", 16, 18>>, <<"pd_pagesize_version", 18, 20>>,
       <<"pd_prune_xid", 20, 24>> >>

PageHeaderFields ==
    << <<"LSN", 0, 8>>, <<"checksum", 8, 10>>, <<"pd_flags", 10, 12>>,
       <<"pd_lower", 12, 14>>, <<"pd_upper", 14, 16>>,
       <<"pd_special", 16, 18>>, <<"pd_pagesize_version", 18, 20>>,
       <<"pd_prune_xid", 20, 24>> >>

\* "Eye the contents of the header": the bounds the header must respect
\* InvalidHeader, had it accepted every layout version
InvalidHeaderAnyVersion(page, bs) ==
    LET maxOffset == PageGetMaxOffsetNumber(page)
    IN \/ maxOffset < 0
       \/ maxOffset > bs
       \/ page.pd_upper > bs
       \/ page.pd_upper > page.pd_special
       \/ page.pd_lower < (SizeOfPageHeaderData - SizeOfItemIdData)
       \/ page.pd_lower > bs
       \/ page.pd_upper < page.pd_lower
       \/ page.pd_special > bs

InvalidHeader(page, bs) ==
    LET maxOffset == PageGetMaxOffsetNumber(page)
    IN \/ maxOffset < 0
       \/ maxOffset > bs
       \/ page.pd_version # PG_PAGE_LAYOUT_VERSION
       \/ page.pd_upper > bs
       \/ page.pd_upper > page.pd_special
       \/ page.pd_lower < (SizeOfPageHeaderData - SizeOfItemIdData)
       \/ page.pd_lower > bs
       \/ page.pd_upper < page.pd_lower
       \/ page.pd_special > bs

\* VerifyChecksum, had -z not left zero checksums alone
VerifyChecksumOfZero(page, blockOptions) ==
    \/ BLOCK_CHECKSUMS \in blockOptions
    \/ BLOCK_ZEROSUMS \in blockOptions

\* whether the header decoder recomputes and compares the checksum
VerifyChecksum(page, blockOptions) ==
    \/ BLOCK_CHECKSUMS \in blockOptions
    \/ (BLOCK_ZEROSUMS \in blockOptions /\ page.pd_checksum # 0)

ChecksumFailure(page, blkno, g) ==
    /\ VerifyChecksum(page, g.blockOptions)
    /\ pg_checksum_page(page, blkno + g.segmentBlockDelta) # page.pd_checksum

\* EmitXmlPageHeader, had it tested the fixed part of the header only
EmitXmlPageHeaderFixedPartOnly(page, blkno, g) ==
    IF g.bytesToFormat < SizeOfPageHeaderData
    THEN [rc |-> EOF_ENCOUNTERED, err |-> TRUE, tags |-> <<>>]
    ELSE
        [rc |-> 0,
         err |-> \/ InvalidHeader(page, g.blockSize)
                 \/ ChecksumFailure(page, blkno, g),
         tags |-> LET tags == FieldTags("header", g.pageOffset, PageHeaderFields)
                  IN [tags EXCEPT ![1] = [@ EXCEPT !.name = @ \o ": " \o
                                             FormatLsn(GetPageLsn(page))]]]
\* g carries the globals the decoders read: blockSize, bytesToFormat,
\* pageOffset, blockOptions, afterThreshold, segmentNumber,
\* segmentBlockDelta, firstType, exitCode, nrelatts.
\* Result: rc, err (exitCode was set to 1), tags.
EmitXmlPageHeader(page, blkno, g) ==
    IF g.bytesToFormat < SizeOfPageHeaderData
    THEN [rc |-> EOF_ENCOUNTERED, err |-> TRUE, tags |-> <<>>]
    ELSE
        LET maxOffset == PageGetMaxOffsetNumber(page)
            itemsLength == maxOffset * SizeOfItemIdData
            partial == maxOffset > 0
                        /\ g.bytesToFormat < (SizeOfPageHeaderData + itemsLength)
        IN [rc |-> IF partial THEN EOF_ENCOUNTERED ELSE 0,
            err |-> \/ InvalidHeader(page, g.blockSize)
                    \/ ChecksumFailure(page, blkno, g)
                    \/ partial,
            tags |-> LET tags == FieldTags("header", g.pageOffset, PageHeaderFields)
                     IN [tags EXCEPT ![1] = [@ EXCEPT !.name = @ \o ": " \o
                                                FormatLsn(GetPageLsn(page))]]]

(***************************************************************************)
(* Line pointers and tuples                                                *)
(***************************************************************************)
\* acc is the output so far: tags, and err = exitCode is nonzero.

\* EmitXmlTupleTagFont, had it written a malformed tag after reporting it
EmitXmlTupleTagWritesMalformed(acc, name, relfileOff, relfileOffEnd) ==
    IF relfileOff > relfileOffEnd
    THEN [acc EXCEPT !.err = TRUE,
                     !.tags = Append(@, Tag("tuple", name, relfileOff, relfileOffEnd))]
    ELSE [acc EXCEPT !.tags = Append(@, Tag("tuple", name, relfileOff, relfileOffEnd))]

\* EmitXmlTupleTagFont: a malformed tag is reported and not written
EmitXmlTupleTag(acc, name, relfileOff, relfileOffEnd) ==
    IF relfileOff > relfileOffEnd
    THEN [acc EXCEPT !.err = TRUE]
    ELSE [acc EXCEPT !.tags = Append(@, Tag("tuple", name, relfileOff, relfileOffEnd))]

RECURSIVE EmitXmlTupleTags(_, _)
\* a run of EmitXmlTupleTag calls: each of calls is <<name, first, last>>
EmitXmlTupleTags(acc, calls) ==
    IF calls = <<>> THEN acc
    ELSE EmitXmlTupleTags(
            EmitXmlTupleTag(acc, Head(calls)[1], Head(calls)[2], Head(calls)[3]),
            Tail(calls))

\* EmitXmlPageItemIdArray, had line pointer n started at 4 * n
EmitXmlPageItemIdArrayFromOffset(page, blkno, g) ==
    LET maxOffset == PageGetMaxOffsetNumber(page)
    IN [offset \in 1..maxOffset |->
          Tag("slot", "ItemId",
              g.pageOffset + SizeOfPageHeaderData
                 + (SizeOfItemIdData * offset),
              (g.pageOffset + SizeOfPageHeaderData
                 + (SizeOfItemIdData * offset) + SizeOfItemIdData) - 1)]

EmitXmlPageItemIdArray(page, blkno, g) ==
    LET maxOffset == PageGetMaxOffsetNumber(page)
    IN [offset \in 1..maxOffset |->
          Tag("slot", "ItemId",
              g.pageOffset + SizeOfPageHeaderData
                 + (SizeOfItemIdData * (offset - 1)),
              (g.pageOffset + SizeOfPageHeaderData
                 + (SizeOfItemIdData * (offset - 1)) + SizeOfItemIdData) - 1)]

Max(a, b) == IF a > b THEN a ELSE b
Min(a, b) == IF a < b THEN a ELSE b

\* BITMAPLEN
BitmapLen(natts) == (natts + 7) \div 8

\* GetHeapTupleHeaderFlags: the computed header length must equal t_hoff
HeaderLengthMismatch(htup) ==
    LET bitmapLength == IF "HEAP_HASNULL" \in htup.t_infomask
                        THEN BitmapLen(htup.natts) ELSE 0
        oidLength == IF "HEAP_HASOID" \in htup.t_infomask THEN 4 ELSE 0
    IN MAXALIGN(OffsetOfTBits + bitmapLength + oidLength) # htup.t_hoff

\* att_isnull, had a set bit marked a NULL column
att_isnullWhenSet(i, t_bits) == i \in t_bits
\* att_isnull: a column is NULL when its bit of the null bitmap is clear
att_isnull(i, t_bits) == i \notin t_bits

\* att_align_nominal
att_align_nominal(off, attalign) ==
    LET a == CASE attalign = "i" -> 4
               [] attalign = "d" -> 8
               [] attalign = "s" -> 2
               [] OTHER -> 1
    IN ((off + (a - 1)) \div a) * a

\* the byte at tupdata + p
TupleByte(tup, p) ==
    IF p >= 0 /\ p < Len(tup.data) THEN tup.data[p + 1] ELSE 0

\* strlen(tupdata + p); strnlen when max is not negative (max is a size_t:
\* a negative int is a length no string reaches)
StrLen(tup, p, max) ==
    LET limit == IF max < 0 THEN Max(Len(tup.data) - p, 0) ELSE max
    IN CHOOSE k \in 0..limit :
          /\ k = limit \/ TupleByte(tup, p + k) = 0
          /\ \A j \in 0..(k - 1) : TupleByte(tup, p + j) # 0

\* VARSIZE_ANY(tupdata + p), little-endian
VARSIZE_ANY(tup, p) ==
    LET b == TupleByte(tup, p)
        tag == TupleByte(tup, p + 1)
    IN IF b = 1
       \* VARSIZE_EXTERNAL: VARHDRSZ_EXTERNAL + VARTAG_SIZE(tag)
       THEN 2 + (CASE tag = 1 -> 8
                   [] tag \in {2, 3} -> 8
                   [] tag = 18 -> 16
                   [] OTHER -> 1)
       ELSE IF b % 2 = 1 THEN b \div 2
       ELSE (b \div 4) + (64 * TupleByte(tup, p + 1))
                + (16384 * TupleByte(tup, p + 2))
                + (4194304 * TupleByte(tup, p + 3))

\* The walk over the attributes of the -D list.  t_bits is the null bitmap,
\* hasBits tells whether the tuple has one.
EmitXmlAttributesData(acc, g, relfileOff, tup, hasBits, nattrs, datalen) ==
    LET RECURSIVE Loop(_, _, _, _)
        \* attribute i (counted from 0) at offset aligned: hdr is the tag of
        \* a varlena header (<<>> when there is none), the value has truelen
        \* bytes after truestartoff, next is what att_addlength_pointer gives
        Attribute(a, i, attlen, aligned, hdr, truestartoff, truelen, next) ==
            LET a1 == IF hdr = <<>> THEN a
                      ELSE EmitXmlTupleTag(a, hdr[1], relfileOff + aligned,
                                           relfileOff + aligned + hdr[2])
            IN IF datalen < aligned + attlen
               THEN [a1 EXCEPT !.err = TRUE]
               ELSE Loop(EmitXmlTupleTag(a1, g.attnamerel[i + 1],
                            relfileOff + aligned + truestartoff,
                            ((relfileOff + aligned + truestartoff) + truelen) - 1),
                         i + 1, next, next)
        \* first is the byte at attptr, size is VARSIZE_ANY(tupdata + off)
        Varlena(a, i, aligned, first, size) ==
            LET is1B == first % 2 = 1
                hdrname ==
                    CASE is1B /\ first = 1 -> "varattrib_1b_e"
                      [] is1B -> "varattrib_1b"
                      [] first % 4 = 0 -> "va_4byte"
                      [] OTHER -> "va_compressed"
            IN Attribute(a, i, -1, aligned,
                         <<g.attnamerel[i + 1] \o " - " \o hdrname,
                           IF is1B THEN 0 ELSE 3>>,
                         IF is1B THEN 1 ELSE 4,
                         size - (IF is1B THEN 1 ELSE 4),
                         aligned + size)
        Dispatch(a, i, attlen, aligned, first, ptr) ==
            IF attlen = -1
            THEN Varlena(a, i, aligned, first, VARSIZE_ANY(tup, aligned))
            ELSE IF attlen = -2
            THEN Attribute(a, i, attlen, aligned, <<>>, 0,
                           StrLen(tup, ptr, datalen - aligned) + 1,
                           aligned + StrLen(tup, aligned, -1) + 1)
            ELSE Attribute(a, i, attlen, aligned, <<>>, 0, attlen,
                           aligned + attlen)
        \* att_align_pointer leaves off alone at a nonzero byte
        Align(a, i, off, ptr, attlen, first) ==
            Dispatch(a, i, attlen,
                     IF attlen = -1 /\ first # 0 THEN off
                     ELSE att_align_nominal(off, g.attalignrel[i + 1]),
                     first, ptr)
        \* attptr is tupdata + ptr
        Loop(a, i, off, ptr) ==
            IF i >= nattrs THEN a
            ELSE IF hasBits /\ att_isnull(i, tup.t_bits)
            THEN Loop(a, i + 1, off, ptr)
            ELSE Align(a, i, off, ptr, g.attlenrel[i + 1], TupleByte(tup, ptr))
    IN Loop(acc, 0, 0, 0)

\* EmitXmlAttributesHeap, had it left a tuple with too many attributes
\* without attribute tags
EmitXmlAttributesHeapSkips(acc, g, relfileOff, htup, itemSize) ==
    LET datalen == itemSize - htup.t_hoff
        tooMany == htup.natts > g.nrelatts
    IN IF g.nrelatts = 0
       THEN EmitXmlTupleTag(acc, "contents", relfileOff, (relfileOff + datalen) - 1)
       ELSE IF tooMany THEN [acc EXCEPT !.err = TRUE]
       ELSE EmitXmlAttributesData(acc, g, relfileOff, htup,
                                  "HEAP_HASNULL" \in htup.t_infomask,
                                  htup.natts, datalen)

\* the row-store walk: one "contents" tag when there is no -D list
EmitXmlAttributesHeap(acc, g, relfileOff, htup, itemSize) ==
    LET datalen == itemSize - htup.t_hoff
        tooMany == htup.natts > g.nrelatts
        nattrs == IF tooMany THEN g.nrelatts ELSE htup.natts
    IN IF g.nrelatts = 0
       THEN EmitXmlTupleTag(acc, "contents", relfileOff, (relfileOff + datalen) - 1)
       ELSE EmitXmlAttributesData(
               IF tooMany THEN [acc EXCEPT !.err = TRUE] ELSE acc,
               g, relfileOff, htup, "HEAP_HASNULL" \in htup.t_infomask,
               nattrs, datalen)

EmitXmlHeapTuple(acc, g, htup, relfileOff, itemSize) ==
    LET o == relfileOff
        fixed == EmitXmlTupleTags(acc,
            << <<"xmin", o, o + 3>>, <<"xmax", o + 4, o + 7>>,
               <<IF "HEAP_MOVED" \in htup.t_infomask THEN "t_xvac" ELSE "t_cid",
                 o + 8, o + 11>>,
               <<"t_ctid->bi_hi", o + 12, o + 13>>,
               <<"t_ctid->bi_lo", o + 14, o + 15>>,
               <<"t_ctid->offsetNumber", o + 16, o + 17>>,
               <<"t_infomask2", o + 18, o + 19>>,
               <<"t_infomask", o + 20, o + 21>>,
               <<"t_hoff", o + 22, o + 22>> >>)
        flagged == IF HeaderLengthMismatch(htup)
                   THEN [fixed EXCEPT !.err = TRUE] ELSE fixed
        bits == IF "HEAP_HASNULL" \in htup.t_infomask
                THEN EmitXmlTupleTag(flagged, "t_bits", o + OffsetOfTBits,
                        (o + OffsetOfTBits + BitmapLen(htup.natts)) - 1)
                ELSE flagged
        oid == IF "HEAP_HASOID" \in htup.t_infomask
               THEN EmitXmlTupleTag(bits, "HeapTupleHeaderGetOid()",
                        (o + htup.t_hoff) - 4, (o + htup.t_hoff) - 1)
               ELSE bits
    IN IF itemSize = htup.t_hoff THEN oid
       ELSE IF itemSize < htup.t_hoff THEN [oid EXCEPT !.err = TRUE]
       ELSE EmitXmlAttributesHeap(oid, g, o + htup.t_hoff, htup, itemSize)

\* IndexInfoFindDataOffset
IndexInfoFindDataOffset(tuple) ==
    IF "INDEX_NULL_MASK" \in tuple.t_info_flags
    THEN MAXALIGN(SizeOfIndexTupleData + 4)
    ELSE MAXALIGN(SizeOfIndexTupleData)

SizeOfItemPointerData == 6

\* BTreeTupleIsPivot, BTreeTupleIsPosting: INDEX_ALT_TID_MASK is the
\* AM-reserved bit of t_info, BT_IS_POSTING is 0x2000 of the offset number
BTreeTupleIsPivot(itup) ==
    "INDEX_AM_RESERVED_BIT" \in itup.t_info_flags
        /\ ~HasBit(itup.t_tid.ip_posid, 8192)
BTreeTupleIsPosting(itup) ==
    "INDEX_AM_RESERVED_BIT" \in itup.t_info_flags
        /\ HasBit(itup.t_tid.ip_posid, 8192)

\* GinIsPostingTree, had every tuple with posting items been a posting tree
\* pointer
GinIsPostingTreeNonzero(itup) == itup.t_tid.ip_posid # 0
\* GinGetNPosting is the offset number of t_tid, GIN_TREE_POSTING is 0xffff
GinIsPostingTree(itup) == itup.t_tid.ip_posid = 65535
\* the block number of t_tid without its top bit (GIN_ITUP_COMPRESSED)
GinGetPostingOffset(itup) ==
    ((itup.t_tid.bi_hi % 32768) * 65536) + itup.t_tid.bi_lo

\* EmitXmlAttributesIndex, had it gone by the -D list alone
EmitXmlAttributesIndexDespiteError(acc, g, specialType, itup, relfileOff, tupHeaderOff, itemSize) ==
    LET haveargreltuple ==
            ~(\/ g.nrelatts = 0
              \/ (specialType = SPEC_SECT_INDEX_GIN /\ g.nrelatts > 1))
        hasBits == "INDEX_NULL_MASK" \in itup.t_info_flags
        datalen0 == (itemSize - IndexInfoFindDataOffset(itup)) - 1
        pivot == specialType = SPEC_SECT_INDEX_BTREE /\ BTreeTupleIsPivot(itup)
        posting == specialType = SPEC_SECT_INDEX_BTREE /\ ~pivot
                      /\ BTreeTupleIsPosting(itup)
        \* BTreeTupleGetNAtts: the offset number under BT_OFFSET_MASK
        natts == itup.t_tid.ip_posid % 4096
        tooMany == pivot /\ haveargreltuple /\ natts > g.nrelatts
        nattrs == IF pivot /\ ~tooMany THEN natts ELSE g.nrelatts
        \* BTreeTupleGetHeapTID of a pivot tuple: BT_PIVOT_HEAP_TID_ATTR
        heapTid == pivot /\ HasBit(itup.t_tid.ip_posid, 4096)
        htidoffset == (tupHeaderOff + itup.t_info_size) - SizeOfItemPointerData
        \* BTreeTupleGetPostingOffset is the block number of t_tid
        postoffset == tupHeaderOff + (itup.t_tid.bi_hi * 65536) + itup.t_tid.bi_lo
        datalen == IF heapTid THEN datalen0 - SizeOfItemPointerData
                   ELSE IF posting THEN (postoffset - relfileOff) - 1
                   ELSE datalen0
        acc0 == IF tooMany THEN [acc EXCEPT !.err = TRUE] ELSE acc
        tid(base, prefix) ==
            << <<prefix \o "bi_hi", base, base + 1>>,
               <<prefix \o "bi_lo", base + 2, base + 3>>,
               <<prefix \o "offsetNumber", base + 4, base + 5>> >>
        RECURSIVE PostingTids(_, _)
        PostingTids(a, i) ==
            IF i >= natts THEN a
            ELSE PostingTids(
                    EmitXmlTupleTags(a,
                        tid(postoffset + (SizeOfItemPointerData * i),
                            "TID[" \o ToString(i) \o "] ")),
                    i + 1)
        acc1 == IF heapTid
                THEN EmitXmlTupleTags(acc0, tid(htidoffset, "BTreeTupleGetHeapTID()->"))
                ELSE IF posting THEN PostingTids(acc0, 0)
                ELSE acc0
    IN IF haveargreltuple
       THEN EmitXmlAttributesData(acc1, g, relfileOff, itup, hasBits, nattrs,
                                  MAXALIGN(datalen))
       ELSE EmitXmlTupleTag(acc1, "contents", relfileOff, relfileOff + datalen)

\* The attributes of an index tuple: relfileOff is where they start,
\* tupHeaderOff where the tuple starts.
EmitXmlAttributesIndex(acc, g, specialType, itup, relfileOff, tupHeaderOff, itemSize) ==
    LET haveargreltuple ==
            ~(\/ g.nrelatts = 0
              \/ g.exitCode # 0 \/ acc.err
              \/ (specialType = SPEC_SECT_INDEX_GIN /\ g.nrelatts > 1))
        hasBits == "INDEX_NULL_MASK" \in itup.t_info_flags
        datalen0 == (itemSize - IndexInfoFindDataOffset(itup)) - 1
        pivot == specialType = SPEC_SECT_INDEX_BTREE /\ BTreeTupleIsPivot(itup)
        posting == specialType = SPEC_SECT_INDEX_BTREE /\ ~pivot
                      /\ BTreeTupleIsPosting(itup)
        \* BTreeTupleGetNAtts: the offset number under BT_OFFSET_MASK
        natts == itup.t_tid.ip_posid % 4096
        tooMany == pivot /\ haveargreltuple /\ natts > g.nrelatts
        nattrs == IF pivot /\ ~tooMany THEN natts ELSE g.nrelatts
        \* BTreeTupleGetHeapTID of a pivot tuple: BT_PIVOT_HEAP_TID_ATTR
        heapTid == pivot /\ HasBit(itup.t_tid.ip_posid, 4096)
        htidoffset == (tupHeaderOff + itup.t_info_size) - SizeOfItemPointerData
        \* BTreeTupleGetPostingOffset is the block number of t_tid
        postoffset == tupHeaderOff + (itup.t_tid.bi_hi * 65536) + itup.t_tid.bi_lo
        datalen == IF heapTid THEN datalen0 - SizeOfItemPointerData
                   ELSE IF posting THEN (postoffset - relfileOff) - 1
                   ELSE datalen0
        acc0 == IF tooMany THEN [acc EXCEPT !.err = TRUE] ELSE acc
        tid(base, prefix) ==
            << <<prefix \o "bi_hi", base, base + 1>>,
               <<prefix \o "bi_lo", base + 2, base + 3>>,
               <<prefix \o "offsetNumber", base + 4, base + 5>> >>
        RECURSIVE PostingTids(_, _)
        PostingTids(a, i) ==
            IF i >= natts THEN a
            ELSE PostingTids(
                    EmitXmlTupleTags(a,
                        tid(postoffset + (SizeOfItemPointerData * i),
                            "TID[" \o ToString(i) \o "] ")),
                    i + 1)
        acc1 == IF heapTid
                THEN EmitXmlTupleTags(acc0, tid(htidoffset, "BTreeTupleGetHeapTID()->"))
                ELSE IF posting THEN PostingTids(acc0, 0)
                ELSE acc0
    IN IF haveargreltuple
       THEN EmitXmlAttributesData(acc1, g, relfileOff, itup, hasBits, nattrs,
                                  MAXALIGN(datalen))
       ELSE EmitXmlTupleTag(acc1, "contents", relfileOff, relfileOff + datalen)

\* An index tuple of lp_len itemSize (negative: no lp_len is known).
EmitXmlIndexTuple(acc, g, page, specialType, tuple, relfileOff, itemSize) ==
    LET o == relfileOff
        sizeOk == itemSize < 0 \/ itemSize = tuple.t_info_size
        size == IF itemSize < 0 THEN tuple.t_info_size
                ELSE IF sizeOk THEN itemSize
                ELSE Max(SizeOfIndexTupleData, Min(itemSize, tuple.t_info_size))
        acc0 == IF sizeOk THEN acc ELSE [acc EXCEPT !.err = TRUE]
        gin == specialType = SPEC_SECT_INDEX_GIN
        \* t_tid is a block number and, but for the cases named, an offset
        conventional == \/ ~gin
                        \/ ~HasBit(GinPageFlags(page, g.blockSize), GIN_LEAF)
                        \/ GinIsPostingTree(tuple)
        btree == specialType = SPEC_SECT_INDEX_BTREE
        hdr == EmitXmlTupleTags(acc0,
            IF conventional
            THEN << <<"t_tid->bi_hi", o, o + 1>>, <<"t_tid->bi_lo", o + 2, o + 3>>,
                    <<CASE gin /\ GinIsPostingTree(tuple)
                             -> "t_tid->offsetNumber/GinIsPostingTree()"
                        [] btree /\ BTreeTupleIsPivot(tuple)
                             -> "t_tid->offsetNumber/BTreeTupleGetNAtts()"
                        [] btree /\ BTreeTupleIsPosting(tuple)
                             -> "t_tid->offsetNumber/BTreeTupleGetNPosting()"
                        [] OTHER -> "t_tid->offsetNumber",
                      o + 4, o + 5>>,
                    <<"t_info", o + 6, o + 7>> >>
            ELSE << <<"t_tid->bi_hi/GinItupIsCompressed()", o, o + 1>>,
                    <<"t_tid->bi_lo/GinGetPostingOffset()", o + 2, o + 3>>,
                    <<"t_tid->offsetNumber/GinGetNPosting()", o + 4, o + 5>>,
                    <<"t_info", o + 6, o + 7>> >>)
        nulls == "INDEX_NULL_MASK" \in tuple.t_info_flags
                    /\ specialType # SPEC_SECT_INDEX_SPGIST
        bitmap == IF nulls
                  THEN EmitXmlTupleTag(hdr, "IndexAttributeBitMapData array",
                          o + 8, (o + IndexInfoFindDataOffset(tuple)) - 1)
                  ELSE hdr
        off == IF nulls THEN o + IndexInfoFindDataOffset(tuple) ELSE o + 8
        relfileOffNext == o + size
    IN IF off >= relfileOffNext THEN bitmap
       ELSE IF conventional \/ tuple.t_tid.ip_posid = 0
       THEN EmitXmlAttributesIndex(bitmap, g, specialType, tuple, off, o, size)
       ELSE EmitXmlTupleTag(
               EmitXmlAttributesIndex(bitmap, g, specialType, tuple, off, o,
                                      GinGetPostingOffset(tuple)),
               "posting list",
               relfileOffNext - (size - GinGetPostingOffset(tuple)),
               relfileOffNext - 1)

ITEM_HEAP == "ITEM_HEAP"
ITEM_INDEX == "ITEM_INDEX"
ITEM_SPG_INN == "ITEM_SPG_INN"
ITEM_SPG_LEAF == "ITEM_SPG_LEAF"
ITEM_BRIN == "ITEM_BRIN"

\* EmitXmlTuple, had a dead line pointer of length 0 been an error
EmitXmlTupleDeadIsError(acc, page, specialType, formatAs, g, offset) ==
    LET itemId == PageGetItemId(page, offset)
        itemSize == itemId.lp_len
        itemOffset == itemId.lp_off
        itemFlags == itemId.lp_flags
    IN IF itemSize = 0
       THEN IF itemFlags \in {LP_NORMAL, LP_DEAD}
            THEN [acc EXCEPT !.err = TRUE] ELSE acc
       ELSE IF itemFlags = LP_REDIRECT \/ itemFlags = LP_UNUSED
       THEN [acc EXCEPT !.err = TRUE]
       ELSE IF itemOffset + itemSize > g.blockSize
                \/ itemOffset + itemSize > g.bytesToFormat
       THEN [acc EXCEPT !.err = TRUE]
       ELSE IF formatAs = ITEM_HEAP
       THEN EmitXmlHeapTuple(acc, g, itemId.tup, g.pageOffset + itemOffset,
                             itemSize)
       ELSE IF formatAs = ITEM_INDEX
       THEN EmitXmlIndexTuple(acc, g, page, specialType, itemId.tup,
                              g.pageOffset + itemOffset, itemSize)
       ELSE acc

\* One pass of the item loop of EmitXmlTuples.  SP-GiST and BRIN tuples have
\* their own decoders; the pages read here carry none.
EmitXmlTuple(acc, page, specialType, formatAs, g, offset) ==
    LET itemId == PageGetItemId(page, offset)
        itemSize == itemId.lp_len
        itemOffset == itemId.lp_off
        itemFlags == itemId.lp_flags
    IN IF itemSize = 0
       THEN IF itemFlags = LP_NORMAL THEN [acc EXCEPT !.err = TRUE] ELSE acc
       ELSE IF itemFlags = LP_REDIRECT \/ itemFlags = LP_UNUSED
       THEN [acc EXCEPT !.err = TRUE]
       ELSE IF itemOffset + itemSize > g.blockSize
                \/ itemOffset + itemSize > g.bytesToFormat
       THEN [acc EXCEPT !.err = TRUE]
       ELSE IF formatAs = ITEM_HEAP
       THEN EmitXmlHeapTuple(acc, g, itemId.tup, g.pageOffset + itemOffset,
                             itemSize)
       ELSE IF formatAs = ITEM_INDEX
       THEN EmitXmlIndexTuple(acc, g, page, specialType, itemId.tup,
                              g.pageOffset + itemOffset, itemSize)
       ELSE acc

RECURSIVE EmitXmlTupleLoop(_, _, _, _, _, _, _)
EmitXmlTupleLoop(acc, page, specialType, formatAs, g, offset, maxOffset) ==
    IF offset > maxOffset THEN acc
    ELSE EmitXmlTupleLoop(
            EmitXmlTuple(acc, page, specialType, formatAs, g, offset),
            page, specialType, formatAs, g, offset + 1, maxOffset)

EmitXmlTuples(acc, page, specialType, g) ==
    LET maxOffset == PageGetMaxOffsetNumber(page)
        formatAs ==
            CASE specialType \in {SPEC_SECT_NONE, SPEC_SECT_SEQUENCE} -> ITEM_HEAP
              [] specialType \in {SPEC_SECT_INDEX_BTREE, SPEC_SECT_INDEX_HASH,
                                  SPEC_SECT_INDEX_GIST, SPEC_SECT_INDEX_GIN}
                    -> ITEM_INDEX
              [] specialType = SPEC_SECT_INDEX_SPGIST
                    -> IF HasBit(SpGistPageFlags(page, g.blockSize), SPGIST_LEAF)
                       THEN ITEM_SPG_LEAF ELSE ITEM_SPG_INN
              [] specialType = SPEC_SECT_INDEX_BRIN -> ITEM_BRIN
              [] OTHER -> ITEM_INDEX
        unsupported == specialType \in
            {SPEC_SECT_ERROR_UNKNOWN, SPEC_SECT_ERROR_BOUNDARY}
    IN IF maxOffset = 0 THEN acc
       ELSE IF (maxOffset < 0) \/ (maxOffset > g.blockSize)
       THEN [acc EXCEPT !.err = TRUE]
       ELSE EmitXmlTupleLoop(
                IF unsupported THEN [acc EXCEPT !.err = TRUE] ELSE acc,
                page, specialType, formatAs, g, 1, maxOffset)

(***************************************************************************)
(* Special section, metapage and the pages that hold no line pointers      *)
(***************************************************************************)
SpecialFields(specialType) ==
    CASE specialType = SPEC_SECT_SEQUENCE -> << <<"magic", 0, 4>> >>
      [] specialType = SPEC_SECT_INDEX_BTREE ->
            << <<"btpo_prev", 0, 4>>, <<"btpo_next", 4, 8>>,
               <<"btpo.level", 8, 12>>, <<"btpo_flags", 12, 14>>,
               <<"btpo_cycleid", 14, 16>> >>
      [] specialType = SPEC_SECT_INDEX_HASH ->
            << <<"hasho_prevblkno", 0, 4>>, <<"hasho_nextblkno", 4, 8>>,
               <<"hasho_bucket", 8, 12>>, <<"hasho_flag", 12, 14>>,
               <<"hasho_page_id", 14, 16>> >>
      [] specialType = SPEC_SECT_INDEX_GIST ->
            << <<"nsn", 0, 8>>, <<"rightlink", 8, 12>>, <<"flags", 12, 14>>,
               <<"gist_page_id", 14, 16>> >>
      [] specialType = SPEC_SECT_INDEX_GIN ->
            << <<"rightlink", 0, 4>>, <<"maxoff", 4, 6>>, <<"flags", 6, 8>> >>
      [] specialType = SPEC_SECT_INDEX_SPGIST ->
            << <<"flags", 0, 2>>, <<"nRedirection", 2, 4>>,
               <<"nPlaceholder", 4, 6>>, <<"spgist_page_id", 6, 8>> >>
      [] specialType = SPEC_SECT_INDEX_BRIN ->
            << <<"BrinPageFlags()", 4, 6>>, <<"BrinPageType()", 6, 8>> >>
      [] OTHER -> << >>

EmitXmlSpecial(acc, page, specialType, g) ==
    IF specialType \in {SPEC_SECT_NONE, SPEC_SECT_ERROR_UNKNOWN,
                        SPEC_SECT_ERROR_BOUNDARY}
    THEN [acc EXCEPT !.err = TRUE]
    ELSE [acc EXCEPT !.tags = @ \o FieldTags("special",
                          g.pageOffset + page.pd_special,
                          SpecialFields(specialType))]

SPGIST_CACHED_PAGES == 8

\* lastUsedPages[i] of SpGistMetaPageData: a block number and a free space
SpGistCachedFields ==
    [i \in 1..(2 * SPGIST_CACHED_PAGES) |->
        IF i % 2 = 1
        THEN <<"lastUsedPages.blkno", 4 + (4 * (i - 1)), 8 + (4 * (i - 1))>>
        ELSE <<"lastUsedPages.freeSpace", 4 + (4 * (i - 1)), 8 + (4 * (i - 1))>>]

MetaFields(specialType) ==
    CASE specialType = SPEC_SECT_INDEX_BTREE ->
            << <<"btm_magic", 0, 4>>, <<"btm_version", 4, 8>>,
               <<"btm_root", 8, 12>>, <<"btm_level", 12, 16>>,
               <<"btm_fastroot", 16, 20>>, <<"btm_fastlevel", 20, 24>>,
               <<"btm_oldest_btpo_xact", 24, 32>>,
               <<"btm_last_cleanup_num_heap_tuples", 32, 40>>,
               <<"btm_allequalimage", 40, 48>> >>
      [] specialType = SPEC_SECT_INDEX_HASH ->
            << <<"hashm_magic", 0, 4>>, <<"hashm_version", 4, 8>>,
               <<"hashm_ntuples", 8, 16>>, <<"hashm_ffactor", 16, 18>>,
               <<"hashm_bsize", 18, 20>>, <<"hashm_bmsize", 20, 22>>,
               <<"hashm_bmshift", 22, 24>>, <<"hashm_maxbucket", 24, 28>>,
               <<"hashm_highmask", 28, 32>>, <<"hashm_lowmask", 32, 36>>,
               <<"hashm_ovflpoint", 36, 40>>, <<"hashm_firstfree", 40, 44>>,
               <<"hashm_nmaps", 44, 48>>, <<"hashm_procid", 48, 52>>,
               <<"hashm_spares", 52, 444>>, <<"hashm_mapp", 444, 4544>> >>
      [] specialType = SPEC_SECT_INDEX_GIN ->
            << <<"head", 0, 4>>, <<"tail", 4, 8>>, <<"tailFreeSize", 8, 12>>,
               <<"nPendingPages", 12, 16>>, <<"nPendingHeapTuples", 16, 24>>,
               <<"nTotalPages", 24, 28>>, <<"nEntryPages", 28, 32>>,
               <<"nDataPages", 32, 40>>, <<"nEntries", 40, 48>>,
               <<"ginVersion", 48, 56>> >>
      [] specialType = SPEC_SECT_INDEX_SPGIST ->
            << <<"magicNumber", 0, 4>> >> \o SpGistCachedFields
      [] specialType = SPEC_SECT_INDEX_BRIN ->
            << <<"brinMagic", 0, 4>>, <<"brinVersion", 4, 8>>,
               <<"pagesPerRange", 8, 12>>, <<"lastRevmapPage", 12, 16>> >>
      [] OTHER -> << >>

EmitXmlPageMeta(acc, specialType, blkno, g) ==
    LET metaStartOffset == g.pageOffset + MAXALIGN(SizeOfPageHeaderData)
        isMeta == blkno = 0 /\ specialType \in
                    {SPEC_SECT_INDEX_BTREE, SPEC_SECT_INDEX_HASH,
                     SPEC_SECT_INDEX_GIN, SPEC_SECT_INDEX_SPGIST,
                     SPEC_SECT_INDEX_BRIN}
    IN IF isMeta
       THEN [acc EXCEPT !.tags = @ \o FieldTags("meta", metaStartOffset,
                                                MetaFields(specialType))]
       ELSE [acc EXCEPT !.err = TRUE]

\* one tag from the end of the page header to pd_lower
EmitXmlHashBitmap(acc, page, g) ==
    [acc EXCEPT !.tags = Append(@,
        Tag("bitmap", "hash bitmap",
            g.pageOffset + MAXALIGN(SizeOfPageHeaderData),
            (g.pageOffset + page.pd_lower) - 1))]

SizeOfGinPostingListHeader == 8
SHORTALIGN(n) == ((n + 1) \div 2) * 2

\* GinDataPageGetData(page) - page
GinDataOffset == MAXALIGN(SizeOfPageHeaderData) + MAXALIGN(SizeOfItemPointerData)

\* nbytes of the posting-list segment that starts k-1 segments into the page;
\* zero bytes follow the segments the page holds
SegBytes(page, k) == IF k <= Len(page.segs) THEN page.segs[k] ELSE 0

\* GinNextPostingListSegment: the distance from one segment to the next
SizeOfGinPostingList(page, k) ==
    SizeOfGinPostingListHeader + SHORTALIGN(SegBytes(page, k))

PostingItemTags(acc, g, itemOffset) ==
    LET o == g.pageOffset + itemOffset
    IN EmitXmlTupleTags(acc,
        << <<"PostingItem->child_blkno->bi_hi", o, o + 1>>,
           <<"PostingItem->child_blkno->bi_lo", o + 2, o + 3>>,
           <<"PostingItem->key->bi_hi", o + 4, o + 5>>,
           <<"PostingItem->key->bi_lo", o + 6, o + 7>>,
           <<"PostingItem->key->offsetNumber", o + 8, o + 9>> >>)

RECURSIVE PostingItems(_, _, _, _)
PostingItems(acc, g, offsetnum, maxoff) ==
    IF offsetnum > maxoff THEN acc
    ELSE PostingItems(
            PostingItemTags(acc, g, GinDataOffset + (10 * (offsetnum - 1))),
            g, offsetnum + 1, maxoff)

RECURSIVE PostingSegments(_, _, _, _, _, _)
\* the do-while of EmitXmlPostingTreeTids: segment k starts at itemOffset
PostingSegments(acc, page, g, k, itemOffset, endptr) ==
    LET o == g.pageOffset + itemOffset
        emitted == EmitXmlTupleTags(acc,
            << <<"GinPostingList->first->bi_hi", o, o + 1>>,
               <<"GinPostingList->first->bi_lo", o + 2, o + 3>>,
               <<"GinPostingList->first->offsetNumber", o + 4, o + 5>>,
               <<"GinPostingList->nbytes", o + 6, o + 7>>,
               <<"varbyte encoded TIDs", o + 8, (o + 8 + SegBytes(page, k)) - 1>> >>)
        seg == itemOffset + SizeOfGinPostingList(page, k)
        nextseg == seg + SizeOfGinPostingList(page, k + 1)
    IN IF nextseg <= endptr
       THEN PostingSegments(emitted, page, g, k + 1, seg, endptr)
       ELSE emitted

EmitXmlPostingTreeTids(acc, page, g) ==
    IF ~HasBit(GinPageFlags(page, g.blockSize), GIN_LEAF)
    THEN PostingItems(acc, g, 1, GinPageMaxoff(page, g.blockSize))
    ELSE IF ~HasBit(GinPageFlags(page, g.blockSize), GIN_COMPRESSED)
    THEN acc
    ELSE PostingSegments(acc, page, g, 1, GinDataOffset,
            \* seg + GinDataLeafPageGetPostingListSize(page)
            GinDataOffset + (page.pd_lower - GinDataOffset))

\* (BLCKSZ - header - special) / sizeof(ItemPointerData)
REVMAP_PAGE_MAXITEMS ==
    (BLCKSZ - MAXALIGN(SizeOfPageHeaderData) - MAXALIGN(SizeofBrinSpecialSpace))
        \div SizeOfItemPointerData

RevmapFieldName(i) ==
    CASE i % 3 = 1 -> "rm_tids[i]->bi_hi"
      [] i % 3 = 2 -> "rm_tids[i]->bi_lo"
      [] OTHER -> "rm_tids[i]->offsetNumber"

\* three two-byte tags for each of REVMAP_PAGE_MAXITEMS row pointers
EmitXmlRevmap(acc, page, g) ==
    LET base == g.pageOffset + MAXALIGN(SizeOfPageHeaderData)
    IN [acc EXCEPT !.tags = @ \o
          [i \in 1..(3 * REVMAP_PAGE_MAXITEMS) |->
              Tag("tuple", RevmapFieldName(i),
                  base + (2 * (i - 1)), base + (2 * (i - 1)) + 1)]]

(***************************************************************************)
(* EmitXmlPage: one block of the file                                      *)
(***************************************************************************)
\* g holds the globals the decoders read.  The result holds the tags written
\* for the block, err (the block assigned exitCode = 1), the globals the
\* block assigned, and steps, the decoders that ran.

\* HasMetaPage, had GiST had a metapage
HasMetaPageGistToo(specialType) ==
    specialType \notin {SPEC_SECT_NONE, SPEC_SECT_SEQUENCE}

HasMetaPage(specialType) ==
    specialType \notin {SPEC_SECT_NONE, SPEC_SECT_INDEX_GIST, SPEC_SECT_SEQUENCE}

\* the body of a block whose header was read in full
EmitXmlPageBody(acc, page, blkno, specialType, g) ==
    LET bs == g.blockSize
    IN IF blkno = 0 /\ g.segmentNumber = 0 /\ HasMetaPage(specialType)
       THEN EmitXmlPageMeta(acc, specialType, blkno, g)
       ELSE IF specialType = SPEC_SECT_INDEX_HASH
                /\ IsHashBitmapPage(page, specialType, g.bytesToFormat, bs)
       THEN EmitXmlHashBitmap(acc, page, g)
       ELSE IF specialType = SPEC_SECT_INDEX_GIST
                /\ HasBit(GistPageFlags(page, bs), F_DELETED)
       THEN acc
       ELSE IF specialType = SPEC_SECT_INDEX_GIN
                /\ HasBit(GinPageFlags(page, bs), GIN_DELETED)
       THEN acc
       ELSE IF specialType = SPEC_SECT_INDEX_GIN
                /\ HasBit(GinPageFlags(page, bs), GIN_DATA)
       THEN EmitXmlPostingTreeTids(acc, page, g)
       ELSE IF specialType = SPEC_SECT_INDEX_BRIN
                /\ BrinPageType(page, bs) = BRIN_PAGETYPE_REVMAP
       THEN EmitXmlRevmap(acc, page, g)
       ELSE EmitXmlTuples(
               [acc EXCEPT !.tags = @ \o EmitXmlPageItemIdArray(page, blkno, g)],
               page, specialType, g)

\* LsnBelowThreshold, had the comparison been <=
LsnNotAboveThreshold(page, g) ==
    BLOCK_SKIP_LSN \in g.blockOptions /\ ~LsnLess(g.afterThreshold, GetPageLsn(page))

LsnBelowThreshold(page, g) ==
    BLOCK_SKIP_LSN \in g.blockOptions /\ LsnLess(GetPageLsn(page), g.afterThreshold)

SkipLeaf(page, specialType, g) ==
    BLOCK_SKIP_LEAF \in g.blockOptions /\ IsLeafPage(page, specialType, g.blockSize)

\* the first type seen stays "unknown" until a block sets it
FirstTypeAfter(firstType, specialType) ==
    IF firstType = SPEC_SECT_ERROR_UNKNOWN THEN specialType ELSE firstType

EmitXmlPage(page, blkno, g) ==
    IF PageIsNew(page)
    THEN [tags |-> <<>>, err |-> FALSE, firstType |-> g.firstType,
          specialType |-> g.specialType, pageOffset |-> g.pageOffset,
          steps |-> {}]
    ELSE
      LET pageOffset == U32Times(g.blockSize, blkno)
          specialType == GetSpecialSectionType(page, g.bytesToFormat, g.blockSize)
          firstType == FirstTypeAfter(g.firstType, specialType)
          mismatch == firstType # specialType
          h == [g EXCEPT !.pageOffset = pageOffset, !.firstType = firstType,
                         !.specialType = specialType,
                         !.exitCode = IF mismatch THEN 1 ELSE @]
          base == [tags |-> <<>>, err |-> mismatch, firstType |-> firstType,
                   specialType |-> specialType, pageOffset |-> pageOffset,
                   steps |-> {"classify"}]
          header == EmitXmlPageHeader(page, blkno, h)
          acc0 == [tags |-> header.tags, err |-> mismatch \/ header.err]
          body == EmitXmlPageBody(acc0, page, blkno, specialType, h)
          special == IF specialType # SPEC_SECT_NONE
                     THEN EmitXmlSpecial(body, page, specialType, h)
                     ELSE body
      IN IF LsnBelowThreshold(page, g)
         THEN base
         ELSE IF SkipLeaf(page, specialType, g)
         THEN [base EXCEPT !.tags = <<Tag("leaf", "leaf page", pageOffset,
                                         (pageOffset + BLCKSZ) - 1)>>,
                           !.steps = @ \cup {"leaf"}]
         ELSE IF header.rc = EOF_ENCOUNTERED
         THEN [base EXCEPT !.tags = header.tags, !.err = acc0.err,
                           !.steps = @ \cup {"header"}]
         ELSE [base EXCEPT !.tags = special.tags, !.err = special.err,
                           !.steps = @ \cup
                              ({"header", "body"} \cup
                               IF specialType # SPEC_SECT_NONE
                               THEN {"special"} ELSE {})]

(***************************************************************************)
(* Command line                                                            *)
(***************************************************************************)
OPT_RC_VALID == "OPT_RC_VALID"
OPT_RC_INVALID == "OPT_RC_INVALID"
OPT_RC_FILE == "OPT_RC_FILE"
OPT_RC_DUPLICATE == "OPT_RC_DUPLICATE"
OPT_RC_COPYRIGHT == "OPT_RC_COPYRIGHT"

MaxSegment == 1

\* the first start block whose byte position no longer fits in 32 bits, for
\* every block size read here
WrapStart == (TwoTo24 \div 4096) * 256

\* what GetOptionValue returns for the tokens after -R: -1 is "not a number"
RangeArgs ==
    {<<>>, <<-1>>} \cup {<<s>> : s \in (0..MaxStart) \cup {WrapStart}}
        \cup {<<s, e>> : s \in 0..MaxStart, e \in 0..(MaxStart + 1)}

\* the two halves of the -x argument
LsnArgs == {<<>>, <<0, 0>>, LsnAt}

\* the -D argument as its comma-separated tokens: attlen, attname and
\* attalign of each column.  TenColumns is c0..c9, four bytes wide each,
\* but for c3, which has the given length and alignment.
TenColumns(attlen3, attalign3) ==
    [t \in 1..30 |->
        LET col == (t - 1) \div 3
        IN CASE t % 3 = 1 -> IF col = 3 THEN attlen3 ELSE "4"
             [] t % 3 = 2 -> <<"c0", "c1", "c2", "c3", "c4",
                               "c5", "c6", "c7", "c8", "c9">>[col + 1]
             [] OTHER -> IF col = 3 THEN attalign3 ELSE "i"]

\* the entries of attlenrel, attnamerel, attcolorrel and attalignrel
MaxTupleAttributeNumber == 1664

\* a -D list of n columns, four bytes wide each
ManyColumns(n) ==
    [t \in 1..(3 * n) |->
        CASE t % 3 = 1 -> "4"
          [] t % 3 = 2 -> "c" \o ToString((t - 1) \div 3)
          [] OTHER -> "i"]

\* <<>> stands for a command line without -D
AttrLists ==
    { <<>>,
      \* one column more than the arrays of the parser have entries
      ManyColumns(MaxTupleAttributeNumber + 1),
      TenColumns("4", "i"), TenColumns("8", "d"),
      <<"4", "k", "i">>,
      <<"-1", "v", "i">>,
      <<"-2", "s", "c">>,
      <<"4", "a", "i", "-1", "v", "i", "2", "b", "s">>,
      \* lists that do not parse
      <<"4", "a">>, <<"x", "a", "i">>, <<"4", "a", "q">>, <<"-2", "s", "i">> }

\* a command line: the switches, the -R, -x and -D arguments, the segment
\* the file name stands for, and what else is on it
Commands ==
    [switches : {{}, {"k"}, {"z"}, {"l"}, {"k", "l"}, {"z", "l"}},
     range : RangeArgs, lsn : LsnArgs, segment : 0..MaxSegment, other : {""},
     attrlist : {<<>>}]
    \cup
    [switches : {{}}, range : {<<>>}, lsn : {<<>>}, segment : {0},
     other : {"-h", "-q", "-q -h", "-k -k", "no file", "cannot open"},
     attrlist : {<<>>}]
    \cup
    [switches : {{}}, range : {<<>>}, lsn : {<<>>}, segment : 0..MaxSegment,
     other : {""}, attrlist : AttrLists]

GetOptionXlogRecPtr(arg) == <<arg[1], arg[2]>>

\* the -R branch: start, optional end, both from GetOptionValue
RangeOption(range) ==
    IF range = <<>> THEN [ok |-> TRUE, set |-> FALSE, blockStart |-> -1, blockEnd |-> -1]
    ELSE IF range[1] < 0
    THEN [ok |-> FALSE, set |-> TRUE, blockStart |-> -1, blockEnd |-> -1]
    ELSE IF Len(range) = 1 \/ range[2] < 0
    THEN [ok |-> TRUE, set |-> TRUE, blockStart |-> range[1], blockEnd |-> range[1]]
    ELSE IF range[1] <= range[2]
    THEN [ok |-> TRUE, set |-> TRUE, blockStart |-> range[1], blockEnd |-> range[2]]
    ELSE [ok |-> FALSE, set |-> TRUE, blockStart |-> range[1], blockEnd |-> range[1]]

\* the -x branch
LsnOption(lsn) ==
    IF lsn = <<>> THEN [ok |-> TRUE, set |-> FALSE, afterThreshold |-> InvalidXLogRecPtr]
    ELSE [ok |-> GetOptionXlogRecPtr(lsn) # InvalidXLogRecPtr, set |-> TRUE,
          afterThreshold |-> GetOptionXlogRecPtr(lsn)]

SwitchOptions(switches) ==
    (IF "k" \in switches THEN {BLOCK_CHECKSUMS} ELSE {})
    \cup (IF "z" \in switches THEN {BLOCK_ZEROSUMS} ELSE {})
    \cup (IF "l" \in switches THEN {BLOCK_SKIP_LEAF} ELSE {})

\* sscanf(curropt, "%d", &attlen): <<items assigned, attlen>>
ScanAttlen(curropt) ==
    CASE curropt = "4" -> <<1, 4>>
      [] curropt = "8" -> <<1, 8>>
      [] curropt = "2" -> <<1, 2>>
      [] curropt = "-1" -> <<1, -1>>
      [] curropt = "-2" -> <<1, -2>>
      [] OTHER -> <<0, 0>>

\* arg is the list of tokens between the commas of the -D argument.  The
\* arrays are the sequences of the values stored so far: a store at index n
\* (counted from 0) leaves n + 1 entries, be n within the
\* MaxTupleAttributeNumber entries that were allocated or not.
ParseAttributeListString(arg) ==
    LET RECURSIVE Passes(_, _, _)
        \* one pass of the while loop, over token curropt; returned tells
        \* that a return false was taken
        Pass(st, curropt) ==
            LET n == st.nrelatts
            IN IF st.returned THEN st
               ELSE IF st.lennamealign = 0
               THEN IF ScanAttlen(curropt)[1] # 1
                    THEN [st EXCEPT !.returned = TRUE]
                    ELSE [st EXCEPT !.attlenrel =
                                       SubSeq(@, 1, n) \o <<ScanAttlen(curropt)[2]>>,
                                    !.lennamealign = 1]
               ELSE IF st.lennamealign = 1
               THEN [st EXCEPT !.attnamerel = SubSeq(@, 1, n) \o <<curropt>>,
                               !.lennamealign = 2]
               ELSE IF curropt \notin {"i", "c", "d", "s"}
               THEN [st EXCEPT !.returned = TRUE]
               ELSE IF st.attlenrel[n + 1] = -2 /\ curropt # "c"
               THEN [st EXCEPT !.returned = TRUE]
               ELSE IF n >= MaxTupleAttributeNumber
               THEN [st EXCEPT !.attalignrel = SubSeq(@, 1, n) \o <<curropt>>,
                               !.returned = TRUE]
               ELSE [st EXCEPT !.attalignrel = SubSeq(@, 1, n) \o <<curropt>>,
                               !.lennamealign = 0,
                               !.nrelatts = n + 1]
        \* the passes over tokens lo..hi of arg, in order, up to a return
        Rest(st, lo, hi) == IF st.returned THEN st ELSE Passes(st, lo, hi)
        Passes(st, lo, hi) ==
            IF lo > hi THEN st
            ELSE IF lo = hi THEN Pass(st, arg[lo])
            ELSE Rest(Passes(st, lo, (lo + hi) \div 2), ((lo + hi) \div 2) + 1, hi)
        Return(st) ==
            [st EXCEPT !.ok = ~st.returned /\ st.nrelatts > 0 /\ st.lennamealign = 0]
    IN Return(Passes([ok |-> FALSE, returned |-> FALSE, nrelatts |-> 0,
                      lennamealign |-> 0, attlenrel |-> <<>>,
                      attnamerel |-> <<>>, attalignrel |-> <<>>],
                     1, Len(arg)))

\* the parser stored at an index that the arrays do not have
StoredPastEnd(r) ==
    \/ Len(r.attlenrel) > MaxTupleAttributeNumber
    \/ Len(r.attnamerel) > MaxTupleAttributeNumber
    \/ Len(r.attalignrel) > MaxTupleAttributeNumber

ConsumeOptionsResult(cmd) ==
    LET range == RangeOption(cmd.range)
        lsn == LsnOption(cmd.lsn)
        decode == cmd.attrlist # <<>>
        attrs == IF decode THEN ParseAttributeListString(cmd.attrlist)
                 ELSE [ok |-> TRUE, nrelatts |-> 0, lennamealign |-> 0,
                       attlenrel |-> <<>>, attnamerel |-> <<>>,
                       attalignrel |-> <<>>]
        rc == CASE cmd.other = "-k -k" -> OPT_RC_DUPLICATE
                [] ~range.ok \/ ~lsn.ok \/ ~attrs.ok -> OPT_RC_INVALID
                [] cmd.other \in {"no file", "cannot open"} -> OPT_RC_FILE
                [] cmd.other = "-q" -> OPT_RC_INVALID
                [] cmd.other \in {"-h", "-q -h"} -> OPT_RC_COPYRIGHT
                [] OTHER -> OPT_RC_VALID
    IN [rc |-> rc,
        \* every failure but a plain -h assigns exitCode = 1
        err |-> (rc \notin {OPT_RC_VALID, OPT_RC_COPYRIGHT}) \/ cmd.other = "-q -h",
        blockOptions |-> SwitchOptions(cmd.switches)
                         \cup (IF range.set THEN {BLOCK_RANGE} ELSE {})
                         \cup (IF lsn.set THEN {BLOCK_SKIP_LSN} ELSE {})
                         \cup (IF decode THEN {BLOCK_DECODE} ELSE {}),
        nrelatts |-> attrs.nrelatts, attlenrel |-> attrs.attlenrel,
        attnamerel |-> attrs.attnamerel, attalignrel |-> attrs.attalignrel,
        blockStart |-> range.blockStart, blockEnd |-> range.blockEnd,
        afterThreshold |-> lsn.afterThreshold,
        segmentNumber |-> cmd.segment]

(***************************************************************************)
(* The file and the read buffer                                            *)
(***************************************************************************)
\* pages the driver is run over, several blocks of them in one file
DriverPool(bs) ==
    { HeapPage(bs, LsnNew, "good"), ZeroPage,
      Index16Page(bs, LsnAt, BTP_LEAF, 0),
      Page(LsnOld, "zero", 24, bs - 4, bs - 4, bs, PG_PAGE_LAYOUT_VERSION,
           <<>>, ZeroTail) }

\* pages whose first bytes end a file
ShortPool(bs) == { HeapPage(bs, LsnNew, "zero"), ZeroPage }

\* what a buffer fresh from pg_malloc may hold
UninitPool(bs) == { ZeroPage, HeapPage(bs, LsnOld, "zero") }

\* lengths of a last block that is cut short
ShortReads == {8, 20, 24, 100}

\* what GetBlockSize finds at the start of the file: n bytes, and in them
\* the page size half of pd_pagesize_version
HeaderReads ==
    [n : {SizeOfPageHeaderData}, size : {BLCKSZ, 4096, 768, 0}]
    \cup [n : {0, 20}, size : {0}]

\* a field of the buffer is overwritten when the read covers its last byte
Covered(n, lastByte, new, old) == IF n >= lastByte THEN new ELSE old

\* fread of n bytes of page new into a buffer that holds page old
ReadInto(old, new, n, bs) ==
    [xlogid |-> Covered(n, 4, new.xlogid, old.xlogid),
     xrecoff |-> Covered(n, 8, new.xrecoff, old.xrecoff),
     ck |-> "stored",
     pd_checksum |-> Covered(n, 10, new.pd_checksum, old.pd_checksum),
     pd_lower |-> Covered(n, 14, new.pd_lower, old.pd_lower),
     pd_upper |-> Covered(n, 16, new.pd_upper, old.pd_upper),
     pd_special |-> Covered(n, 18, new.pd_special, old.pd_special),
     pd_pagesize |-> Covered(n, 20, new.pd_pagesize, old.pd_pagesize),
     pd_version |-> Covered(n, 20, new.pd_version, old.pd_version),
     items |-> [i \in 1..Max(Len(new.items), Len(old.items)) |->
                  Covered(n, SizeOfPageHeaderData + (SizeOfItemIdData * i),
                          PageGetItemId(new, i), PageGetItemId(old, i))],
     tail |-> Covered(n, bs, new.tail, old.tail),
     segs |-> Covered(n, bs, new.segs, old.segs)]

\* the page as it is stored at block blkno of the relation
Stored(page, blkno) == [page EXCEPT !.pd_checksum = StoredChecksum(page, blkno)]

(***************************************************************************)
(* The driver: main and EmitXmlBody                                        *)
(***************************************************************************)
VARIABLES
    pc,                 \* where main is
    validOptions,       \* what ConsumeOptions returned
    blockOptions, blockStart, blockEnd, afterThreshold, segmentNumber,
    nrelatts, attlenrel, attnamerel, attalignrel,   \* the -D attribute list
    exitCode, blockSize, bytesToFormat, currentBlock, firstType, specialType,
    pageOffset, segmentBlockDelta, initialRead, tagNumber,
    buffer,             \* the page held by the read buffer
    bufferInit,         \* the buffer was written by a read
    file,               \* hdr: what GetBlockSize read; pos: the read position;
                        \* eof: a read came back short
    pageTags,           \* the tags written by the latest pass of the loop
    steps,              \* the decoders that ran in the latest pass
    pageErr,            \* the latest pass assigned exitCode = 1
    document,           \* how many preambles and footers were written
    exitStatus,         \* what main passed to exit, -1 before it did
    errorRecorded,      \* some step assigned exitCode = 1
    processed,          \* the blocks handed to EmitXmlPage, in order
    seenTypes           \* the types of the initialized pages classified

optionVars == <<validOptions, blockOptions, blockStart, blockEnd,
                afterThreshold, segmentNumber, nrelatts, attlenrel,
                attnamerel, attalignrel>>
pageVars == <<bytesToFormat, firstType, specialType, pageOffset, tagNumber,
              buffer, bufferInit, pageTags, steps, pageErr, processed,
              seenTypes>>
vars == <<pc, optionVars, pageVars, exitCode, blockSize, currentBlock,
          segmentBlockDelta, initialRead, file, document, exitStatus,
          errorRecorded>>

RELSEG_SIZE == 131072

Init ==
    /\ pc = "main"
    /\ validOptions = OPT_RC_VALID
    /\ blockOptions = {}
    /\ blockStart = -1
    /\ blockEnd = -1
    /\ afterThreshold = InvalidXLogRecPtr
    /\ segmentNumber = 0
    /\ nrelatts = 0
    /\ attlenrel = <<>>
    /\ attnamerel = <<>>
    /\ attalignrel = <<>>
    /\ exitCode = 0
    /\ blockSize = 0
    /\ bytesToFormat = 0
    /\ currentBlock = 0
    /\ firstType = SPEC_SECT_ERROR_UNKNOWN
    /\ specialType = SPEC_SECT_NONE
    /\ pageOffset = 0
    /\ segmentBlockDelta = 0
    /\ initialRead = 1
    /\ tagNumber = 0
    /\ buffer = ZeroPage
    /\ bufferInit = FALSE
    /\ file = [hdr |-> [n |-> 0, size |-> 0], pos |-> 0, eof |-> FALSE]
    /\ pageTags = <<>>
    /\ steps = {}
    /\ pageErr = FALSE
    /\ document = [preamble |-> 0, footer |-> 0]
    /\ exitStatus = -1
    /\ errorRecorded = FALSE
    /\ processed = <<>>
    /\ seenTypes = {}

\* main with no argument: the usage text, without ConsumeOptions
NoArguments ==
    /\ pc = "main"
    /\ validOptions' = OPT_RC_COPYRIGHT
    /\ pc' = "usage"
    /\ UNCHANGED <<blockOptions, blockStart, blockEnd, afterThreshold,
                   segmentNumber, nrelatts, attlenrel, attnamerel,
                   attalignrel, pageVars, exitCode, blockSize, currentBlock,
                   segmentBlockDelta, initialRead, file, document, exitStatus,
                   errorRecorded>>

ConsumeOptions ==
    /\ pc = "main"
    /\ \E cmd \in Commands :
         LET r == ConsumeOptionsResult(cmd)
         IN /\ validOptions' = r.rc
            /\ blockOptions' = r.blockOptions
            /\ blockStart' = r.blockStart
            /\ blockEnd' = r.blockEnd
            /\ afterThreshold' = r.afterThreshold
            /\ segmentNumber' = r.segmentNumber
            /\ nrelatts' = r.nrelatts
            /\ attlenrel' = r.attlenrel
            /\ attnamerel' = r.attnamerel
            /\ attalignrel' = r.attalignrel
            /\ exitCode' = IF r.err THEN 1 ELSE exitCode
            /\ errorRecorded' = (errorRecorded \/ r.err)
            \* a store past the end of an array is undefined: the run goes
            \* on, or the process is killed
            /\ pc' \in {IF r.rc = OPT_RC_VALID THEN "opened" ELSE "usage"}
                         \cup (IF StoredPastEnd(r) THEN {"killed"} ELSE {})
    /\ UNCHANGED <<pageVars, blockSize, currentBlock, segmentBlockDelta,
                   initialRead, file, document, exitStatus>>

\* main when the options are not valid: DisplayOptions, then exit(exitCode)
DisplayOptions ==
    /\ pc = "usage"
    /\ pc' = "exit"
    /\ exitStatus' = exitCode
    /\ UNCHANGED <<optionVars, pageVars, exitCode, blockSize, currentBlock,
                   segmentBlockDelta, initialRead, file, document,
                   errorRecorded>>

\* ValidBlockSize, had it taken any size but 0
ValidBlockSizeNonZero(localSize) ==
    localSize # 0

\* a nonzero power of two: the page size field holds at most 16 bits
ValidBlockSize(localSize) ==
    localSize # 0 /\ \E k \in 0..15 : localSize = 2 ^ k

\* main when the options are valid: GetBlockSize, then EmitXmlDocHeader
GetBlockSize ==
    /\ pc = "opened"
    /\ \E hdr \in HeaderReads :
         LET short == hdr.n # SizeOfPageHeaderData
             localSize == IF short THEN BLCKSZ ELSE hdr.size
             err == short \/ ~ValidBlockSize(localSize)
         IN /\ file' = [file EXCEPT !.hdr = hdr]
            /\ blockSize' = IF ValidBlockSize(localSize) THEN localSize ELSE BLCKSZ
            /\ exitCode' = IF err THEN 1 ELSE exitCode
            /\ errorRecorded' = (errorRecorded \/ err)
    /\ document' = [document EXCEPT !.preamble = @ + 1]
    /\ pc' = "body"
    /\ UNCHANGED <<optionVars, pageVars, currentBlock, segmentBlockDelta,
                   initialRead, exitStatus>>

\* EmitXmlBody, had a refused seek left main without the footer
EmitXmlBodySeekFailureExits ==
    /\ pc = "body"
    /\ segmentBlockDelta' = ((RELSEG_SIZE * BLCKSZ) \div blockSize) * segmentNumber
    /\ IF BLOCK_RANGE \in blockOptions
       THEN \E seekOk \in BOOLEAN :
              IF seekOk
              THEN /\ currentBlock' = blockStart
                   /\ file' = [file EXCEPT !.pos = U32Times(blockSize, blockStart)]
                   /\ pc' = "loop"
                   /\ UNCHANGED <<exitCode, errorRecorded>>
              ELSE /\ exitCode' = 1
                   /\ errorRecorded' = TRUE
                   /\ pc' = "exit"
                   /\ UNCHANGED <<currentBlock, file>>
       ELSE /\ pc' = "loop"
            /\ UNCHANGED <<currentBlock, file, exitCode, errorRecorded>>
    /\ UNCHANGED <<optionVars, pageVars, blockSize, initialRead, document,
                   exitStatus>>

\* EmitXmlBody up to its loop: the block delta of the segment and, with -R,
\* the seek, which the file system may refuse
EmitXmlBody ==
    /\ pc = "body"
    /\ segmentBlockDelta' = ((RELSEG_SIZE * BLCKSZ) \div blockSize) * segmentNumber
    /\ IF BLOCK_RANGE \in blockOptions
       THEN \E seekOk \in BOOLEAN :
              IF seekOk
              THEN /\ currentBlock' = blockStart
                   /\ file' = [file EXCEPT !.pos = U32Times(blockSize, blockStart)]
                   /\ pc' = "loop"
                   /\ UNCHANGED <<exitCode, errorRecorded>>
              ELSE /\ exitCode' = 1
                   /\ errorRecorded' = TRUE
                   /\ pc' = "footer"
                   /\ UNCHANGED <<currentBlock, file>>
       ELSE /\ pc' = "loop"
            /\ UNCHANGED <<currentBlock, file, exitCode, errorRecorded>>
    /\ UNCHANGED <<optionVars, pageVars, blockSize, initialRead, document,
                   exitStatus>>

\* the block of the file that the read position is in
FileBlock == file.pos \div blockSize

\* what fread may return at the read position: n bytes, the first n of page
Reads(pool, shortPool, maxBlocks) ==
    IF file.eof THEN {}
    ELSE IF file.hdr.n < SizeOfPageHeaderData
    THEN IF file.pos = 0 /\ file.hdr.n > 0
         THEN [n : {file.hdr.n}, page : shortPool] ELSE {}
    ELSE IF FileBlock >= maxBlocks THEN {}
    ELSE LET sized(p) == IF file.pos = 0
                         THEN [p EXCEPT !.pd_pagesize = file.hdr.size] ELSE p
         IN {[n |-> blockSize, page |-> sized(p)] : p \in pool}
            \cup {[n |-> n, page |-> sized(p)] :
                    n \in {m \in ShortReads : file.pos > 0 \/ m >= SizeOfPageHeaderData},
                    p \in shortPool}

\* the globals that EmitXmlPage and the decoders read
Globals(n) ==
    [blockSize |-> blockSize, bytesToFormat |-> n, pageOffset |-> pageOffset,
     blockOptions |-> blockOptions, afterThreshold |-> afterThreshold,
     segmentNumber |-> segmentNumber, segmentBlockDelta |-> segmentBlockDelta,
     firstType |-> firstType, specialType |-> specialType,
     exitCode |-> exitCode, nrelatts |-> nrelatts, attlenrel |-> attlenrel,
     attnamerel |-> attnamerel, attalignrel |-> attalignrel]

\* EndOfPass, had the loop not tested contentsToDump
EndOfPassGoesOn(contentsToDump) ==
    /\ IF BLOCK_RANGE \in blockOptions /\ currentBlock >= blockEnd /\ contentsToDump
       THEN /\ pc' = "footer"
            /\ UNCHANGED currentBlock
       ELSE /\ pc' = "loop"
            /\ currentBlock' = currentBlock + 1
    /\ initialRead' = 0

\* the end of a pass of the loop: stop at the end of the range, else go on
EndOfPass(contentsToDump) ==
    /\ IF BLOCK_RANGE \in blockOptions /\ currentBlock >= blockEnd /\ contentsToDump
       THEN /\ pc' = "footer"
            /\ UNCHANGED currentBlock
       ELSE /\ pc' = IF contentsToDump THEN "loop" ELSE "footer"
            /\ currentBlock' = currentBlock + 1
    /\ initialRead' = 0

\* a pass of the loop whose fread returns bytes: EmitXmlPage(currentBlock)
ReadBlock(pool, shortPool, maxBlocks) ==
    /\ pc = "loop"
    /\ \E rd \in Reads(pool, shortPool, maxBlocks) :
       \E old \in IF bufferInit \/ rd.n = blockSize
                  THEN {buffer} ELSE UninitPool(blockSize) :
         LET \* page is what the buffer holds after the read, r what
             \* EmitXmlPage made of it
             Emitted(page, r) ==
                /\ buffer' = page
                /\ bufferInit' = TRUE
                /\ bytesToFormat' = rd.n
                /\ file' = [file EXCEPT !.pos = @ + rd.n, !.eof = rd.n < blockSize]
                /\ firstType' = r.firstType
                /\ specialType' = r.specialType
                /\ pageOffset' = r.pageOffset
                /\ pageTags' = r.tags
                /\ steps' = r.steps
                /\ pageErr' = r.err
                /\ tagNumber' = tagNumber + Len(r.tags)
                /\ exitCode' = IF r.err THEN 1 ELSE exitCode
                /\ errorRecorded' = (errorRecorded \/ r.err)
                /\ processed' = Append(processed,
                       [blkno |-> currentBlock, at |-> FileBlock, n |-> rd.n,
                        tags |-> Len(r.tags), err |-> r.err])
                /\ seenTypes' = IF "classify" \in r.steps
                                THEN seenTypes \cup {r.specialType} ELSE seenTypes
             Read(page) ==
                Emitted(page, EmitXmlPage(page, currentBlock, Globals(rd.n)))
         IN Read(ReadInto(old, Stored(rd.page, FileBlock + segmentBlockDelta),
                          rd.n, blockSize))
    /\ EndOfPass(TRUE)
    /\ UNCHANGED <<optionVars, blockSize, segmentBlockDelta, document, exitStatus>>

\* EndOfFile, had it stored the outcome of the pass in exitCode
EndOfFileAssigns ==
    /\ pc = "loop"
    /\ file.pos > 0 \/ file.hdr.n = 0
    /\ bytesToFormat' = 0
    /\ exitCode' = IF initialRead = 1 THEN 1 ELSE 0
    /\ errorRecorded' = (errorRecorded \/ initialRead = 1)
    /\ pageTags' = <<>>
    /\ steps' = {}
    /\ pageErr' = (initialRead = 1)
    /\ EndOfPass(FALSE)
    /\ UNCHANGED <<optionVars, firstType, specialType, pageOffset, tagNumber,
                   buffer, bufferInit, processed, seenTypes, blockSize,
                   segmentBlockDelta, file, document, exitStatus>>

\* a pass of the loop whose fread returns nothing
EndOfFile ==
    /\ pc = "loop"
    \* the file ends at the read position: not at 0 when GetBlockSize read bytes
    /\ file.pos > 0 \/ file.hdr.n = 0
    /\ bytesToFormat' = 0
    /\ exitCode' = IF initialRead = 1 THEN 1 ELSE exitCode
    /\ errorRecorded' = (errorRecorded \/ initialRead = 1)
    /\ pageTags' = <<>>
    /\ steps' = {}
    /\ pageErr' = (initialRead = 1)
    /\ EndOfPass(FALSE)
    /\ UNCHANGED <<optionVars, firstType, specialType, pageOffset, tagNumber,
                   buffer, bufferInit, processed, seenTypes, blockSize,
                   segmentBlockDelta, file, document, exitStatus>>

\* main after EmitXmlBody: EmitXmlFooter, then exit(exitCode)
EmitXmlFooter ==
    /\ pc = "footer"
    /\ document' = [document EXCEPT !.footer = @ + 1]
    /\ exitStatus' = exitCode
    /\ pc' = "exit"
    /\ UNCHANGED <<optionVars, pageVars, exitCode, blockSize, currentBlock,
                   segmentBlockDelta, initialRead, file, errorRecorded>>

ReadPage == ReadBlock(DriverPool(blockSize), ShortPool(blockSize), MaxBlocks)

Next ==
    \/ NoArguments
    \/ ConsumeOptions
    \/ DisplayOptions
    \/ GetBlockSize
    \/ EmitXmlBody
    \/ ReadPage
    \/ EndOfFile
    \/ EmitXmlFooter

Spec == Init /\ [][Next]_vars

(***************************************************************************)
(* main is one sequential thread: whenever it has a next step, it takes it *)
(***************************************************************************)
SpecLive == Init /\ [][Next]_vars /\ WF_vars(Next)

(***************************************************************************)
(* The run over one page: the first pass of the loop reads any page of     *)
(* Pool, and the file ends after it                                        *)
(***************************************************************************)
ReadOnePage ==
    /\ processed = <<>>
    /\ ReadBlock(Pool(blockSize), ShortPool(blockSize), MaxBlocks)

NextPage ==
    \/ NoArguments
    \/ ConsumeOptions
    \/ DisplayOptions
    \/ GetBlockSize
    \/ EmitXmlBody
    \/ ReadOnePage
    \/ EndOfFile
    \/ EmitXmlFooter

SpecPage == Init /\ [][NextPage]_vars

(***************************************************************************)
(* C1: exitCode is sticky and is the exit status.  No step takes exitCode  *)
(* from nonzero back to 0, and main exits with status 0 exactly when no    *)
(* step of the run assigned exitCode = 1.                                  *)
(***************************************************************************)
C1_StickyExitCode ==
    [][/\ exitCode # 0 => exitCode' # 0
       /\ pc' = "exit" => /\ exitStatus' = exitCode'
                          /\ exitStatus' = 0 <=> ~errorRecorded']_vars

\* a page set the error, a clean page followed it, and the status is nonzero
C1_Witness ==
    /\ pc = "exit"
    /\ exitStatus # 0
    /\ file.hdr.n = SizeOfPageHeaderData
    /\ ValidBlockSize(file.hdr.size)
    /\ Len(processed) = 2
    /\ pageTags # <<>>
    /\ ~pageErr

(***************************************************************************)
(* C2: the type of the first initialized page is remembered and every      *)
(* later initialized page of another type sets exitCode.  Once two         *)
(* initialized pages of one run were classified differently, exitCode is   *)
(* nonzero.                                                                *)
(***************************************************************************)
C2_MismatchSetsExitCode ==
    Cardinality(seenTypes) >= 2 => exitCode # 0

(***************************************************************************)
(* C3: a read of more than zero and fewer than sizeof(PageHeaderData)      *)
(* bytes gives no tag for that page and a nonzero exit status, whatever    *)
(* the options, the bytes read and the bytes the buffer held before.       *)
(***************************************************************************)
C3_ShortReadFails ==
    \A i \in 1..Len(processed) :
        processed[i].n < SizeOfPageHeaderData =>
            /\ processed[i].tags = 0
            /\ pc = "exit" => exitStatus # 0

(***************************************************************************)
(* C4: a read of zero bytes ends the loop and decodes nothing.  It assigns *)
(* exitCode = 1 exactly when no read of the loop returned bytes before it, *)
(* also after the seek to blockStart; otherwise it leaves exitCode alone.  *)
(***************************************************************************)
C4_ZeroByteRead ==
    [][(pc = "loop" /\ bytesToFormat' = 0) =>
          /\ pc' = "footer"
          /\ processed' = processed
          /\ tagNumber' = tagNumber
          /\ pageTags' = <<>>
          /\ pageErr' <=> processed = <<>>
          /\ exitCode' = IF processed = <<>> THEN 1 ELSE exitCode]_vars

\* the first read after the seek to blockStart 1 finds the end of a good file
C4_Witness ==
    /\ pc = "footer"
    /\ bytesToFormat = 0
    /\ BLOCK_RANGE \in blockOptions
    /\ blockStart = 1
    /\ file.hdr.n = SizeOfPageHeaderData
    /\ ValidBlockSize(file.hdr.size)
    /\ processed = <<>>
    /\ exitCode = 1

(***************************************************************************)
(* C5: with -R start [end] the loop handles the blocks start, start+1, ... *)
(* of the file, each once and in this order, and none after block end.     *)
(***************************************************************************)
C5_RangeBlocks ==
    BLOCK_RANGE \in blockOptions =>
        \A i \in 1..Len(processed) :
            /\ processed[i].blkno = (blockStart + i) - 1
            /\ processed[i].at = processed[i].blkno
            /\ processed[i].blkno <= blockEnd

(***************************************************************************)
(* C6: with -x, an initialized page whose LSN is below afterThreshold gets *)
(* no tag and no header, item or special decoding, but is classified and   *)
(* compared with firstType as without -x: it can set firstType and can     *)
(* raise the mismatch error.  A page whose LSN is at or above              *)
(* afterThreshold is decoded exactly as without -x.                        *)
(***************************************************************************)
C6_LsnFilter ==
    [][(/\ pc = "loop"
        /\ bytesToFormat' > 0
        /\ BLOCK_SKIP_LSN \in blockOptions
        /\ ~PageIsNew(buffer')) =>
          LET unfiltered ==
                  EmitXmlPage(buffer', currentBlock,
                      [Globals(bytesToFormat') EXCEPT
                          !.blockOptions = @ \ {BLOCK_SKIP_LSN}])
          IN /\ specialType' = unfiltered.specialType
             /\ firstType' = unfiltered.firstType
             /\ pageOffset' = unfiltered.pageOffset
             /\ IF LsnLess(GetPageLsn(buffer'), afterThreshold)
                THEN /\ pageTags' = <<>>
                     /\ steps' = {"classify"}
                     /\ pageErr' <=> firstType' # specialType'
                     /\ pageErr' => exitCode' = 1
                ELSE /\ pageTags' = unfiltered.tags
                     /\ steps' = unfiltered.steps
                     /\ pageErr' = unfiltered.err]_vars

\* the second page is below the threshold: it is skipped and its type differs
\* from the one of the first page, which was decoded
C6_Witness ==
    /\ BLOCK_SKIP_LSN \in blockOptions
    /\ Len(processed) = 2
    /\ processed[1].tags > 0
    /\ bytesToFormat = blockSize
    /\ LsnLess(GetPageLsn(buffer), afterThreshold)
    /\ steps = {"classify"}
    /\ pageTags = <<>>
    /\ firstType # specialType
    /\ exitCode = 1

(***************************************************************************)
(* C7: with -l a page gets the single whole-page tag, and no other tag,    *)
(* exactly when it is a leaf page of a B-Tree, GiST, GIN or SP-GiST index  *)
(* that is not the root; a root that is still a leaf and every other page  *)
(* is itemized, and without -l no page gets the whole-page tag.  The root  *)
(* of a B-Tree carries BTP_ROOT; PostgreSQL keeps the root of a GiST index *)
(* in block 0, of a GIN index in block 1, and the roots of an SP-GiST      *)
(* index in blocks 1 and 2.  Stated for the pages that were not returned   *)
(* from before the leaf test (uninitialized, or below the -x threshold).   *)
(***************************************************************************)
C7_LeafElision ==
    (processed # <<>> /\ bytesToFormat > 0 /\ steps \ {"classify"} # {}) =>
        LET blkno == processed[Len(processed)].blkno + segmentBlockDelta
            elided == Len(pageTags) = 1 /\ pageTags[1].part = "leaf"
            leaf ==
                CASE specialType = SPEC_SECT_INDEX_BTREE ->
                        HasBit(BTPageFlags(buffer, blockSize), BTP_LEAF)
                  [] specialType = SPEC_SECT_INDEX_GIST ->
                        HasBit(GistPageFlags(buffer, blockSize), F_LEAF)
                  [] specialType = SPEC_SECT_INDEX_GIN ->
                        HasBit(GinPageFlags(buffer, blockSize), GIN_LEAF)
                  [] specialType = SPEC_SECT_INDEX_SPGIST ->
                        HasBit(SpGistPageFlags(buffer, blockSize), SPGIST_LEAF)
                  [] OTHER -> FALSE
            root ==
                CASE specialType = SPEC_SECT_INDEX_BTREE ->
                        HasBit(BTPageFlags(buffer, blockSize), BTP_ROOT)
                  [] specialType = SPEC_SECT_INDEX_GIST -> blkno = 0
                  [] specialType = SPEC_SECT_INDEX_GIN -> blkno = 1
                  [] specialType = SPEC_SECT_INDEX_SPGIST -> blkno \in {1, 2}
                  [] OTHER -> FALSE
        IN /\ elided <=> (BLOCK_SKIP_LEAF \in blockOptions /\ leaf /\ ~root)
           /\ ~elided => "header" \in steps
           /\ elided => steps = {"classify", "leaf"}

(***************************************************************************)
(* C8: a file of one 8192-byte row-store page with a valid header, no      *)
(* special section and one normal line pointer to a tuple with t_hoff 24,  *)
(* no null bitmap, no object id and 8 bytes of data, decoded without       *)
(* attribute list and without options.  The run writes 8 page header tags  *)
(* (pd_lsn is one tag), 1 line pointer tag, 9 tuple header tags, 1         *)
(* "contents" tag over exactly the 8 data bytes and no special section     *)
(* tag, 19 tags in all, and exits with status 0.                           *)
(***************************************************************************)
C8_OnePageRun ==
    (/\ blockOptions = {}
     /\ segmentNumber = 0
     /\ blockSize = BLCKSZ
     /\ file.hdr = [n |-> SizeOfPageHeaderData, size |-> BLCKSZ]
     /\ Len(processed) = 1
     /\ processed[1].n = blockSize
     /\ \E lsn \in {LsnOld, LsnAt, LsnNew}, ck \in {"zero", "good", "bad"} :
           [buffer EXCEPT !.pd_checksum = 0, !.ck = ck]
               = HeapPage(BLCKSZ, lsn, ck)) =>
        LET part(p) == {i \in 1..Len(pageTags) : pageTags[i].part = p}
            named(n) == {i \in 1..Len(pageTags) : pageTags[i].name = n}
        IN /\ bytesToFormat > 0 =>
                /\ Cardinality(part("header")) = 8
                /\ Cardinality(part("slot")) = 1
                /\ {pageTags[i].name : i \in part("tuple")} =
                      {"xmin", "xmax", "t_cid", "t_ctid->bi_hi",
                       "t_ctid->bi_lo", "t_ctid->offsetNumber", "t_infomask2",
                       "t_infomask", "t_hoff", "contents"}
                /\ Cardinality(part("tuple")) = 10
                /\ \A i \in named("contents") :
                      /\ pageTags[i].s = (BLCKSZ - 32) + 24
                      /\ pageTags[i].e = BLCKSZ - 1
                /\ part("special") = {}
                /\ Len(pageTags) = 19
           /\ tagNumber = 19
           /\ exitCode = 0
           /\ pc = "exit" => exitStatus = 0

\* the run of C8 after its exit
C8_Witness ==
    /\ pc = "exit"
    /\ blockOptions = {}
    /\ segmentNumber = 0
    /\ blockSize = BLCKSZ
    /\ file.hdr = [n |-> SizeOfPageHeaderData, size |-> BLCKSZ]
    /\ Len(processed) = 1
    /\ processed[1].n = blockSize
    /\ [buffer EXCEPT !.pd_checksum = 0, !.ck = "good"]
           = HeapPage(BLCKSZ, LsnNew, "good")
    /\ tagNumber = 19
    /\ exitStatus = 0

\* C8 as first stated: 9 page header tags and 20 tags in all
C8_TwentyTags ==
    (/\ blockOptions = {}
     /\ segmentNumber = 0
     /\ blockSize = BLCKSZ
     /\ file.hdr = [n |-> SizeOfPageHeaderData, size |-> BLCKSZ]
     /\ Len(processed) = 1
     /\ processed[1].n = blockSize
     /\ bytesToFormat > 0
     /\ \E lsn \in {LsnOld, LsnAt, LsnNew}, ck \in {"zero", "good", "bad"} :
           [buffer EXCEPT !.pd_checksum = 0, !.ck = ck]
               = HeapPage(BLCKSZ, lsn, ck)) =>
        /\ Cardinality({i \in 1..Len(pageTags) : pageTags[i].part = "header"}) = 9
        /\ Len(pageTags) = 20
        /\ exitCode = 0

C11_ShortHeaderIsBoundary ==
    ("classify" \in steps /\ bytesToFormat <= SizeOfPageHeaderData) =>
        \/ specialType = SPEC_SECT_ERROR_BOUNDARY
        \/ /\ bytesToFormat = SizeOfPageHeaderData
           /\ buffer.pd_special # 0
           /\ buffer.pd_special <= bytesToFormat

(***************************************************************************)
(* C12: GetSpecialSectionType on fully read pages of each variant          *)
(***************************************************************************)
\* C12: a fully read page whose special section has the aligned size of a
\* variant's opaque struct and carries that variant's page id in its last
\* word (a GIN flags word for GIN, which has no page id; the magic number
\* followed by zero padding for a sequence) is classified as that variant,
\* whatever the other words of the special section hold.
C12_RoundTrip ==
    LET specialSize == blockSize - buffer.pd_special
        id == LastWord(buffer)
        first == <<SpecialWord(buffer, blockSize, 1),
                   SpecialWord(buffer, blockSize, 2)>>
        ginFlags == {GIN_LEAF, GIN_DATA, GIN_DATA + GIN_LEAF,
                     GIN_DATA + GIN_LEAF + GIN_COMPRESSED, GIN_DELETED}
    IN ("classify" \in steps /\ bytesToFormat = blockSize) =>
        /\ (specialSize = MAXALIGN(SizeofBTPageOpaqueData)
                /\ id <= MAX_BT_CYCLE_ID)
              => specialType = SPEC_SECT_INDEX_BTREE
        /\ (specialSize = MAXALIGN(SizeofHashPageOpaqueData)
                /\ id = HASHO_PAGE_ID)
              => specialType = SPEC_SECT_INDEX_HASH
        /\ (specialSize = MAXALIGN(SizeofGISTPageOpaqueData)
                /\ id = GIST_PAGE_ID)
              => specialType = SPEC_SECT_INDEX_GIST
        /\ (specialSize = MAXALIGN(SizeofSpGistPageOpaqueData)
                /\ id = SPGIST_PAGE_ID)
              => specialType = SPEC_SECT_INDEX_SPGIST
        /\ (specialSize = MAXALIGN(SizeofBrinSpecialSpace)
                /\ id \in {BRIN_PAGETYPE_META, BRIN_PAGETYPE_REVMAP,
                           BRIN_PAGETYPE_REGULAR})
              => specialType = SPEC_SECT_INDEX_BRIN
        /\ (specialSize = MAXALIGN(SizeofGinPageOpaqueData)
                /\ id \in ginFlags)
              => specialType = SPEC_SECT_INDEX_GIN
        /\ (specialSize = MAXALIGN(SizeofUint32)
                /\ first = <<SEQUENCE_MAGIC, 0>>
                /\ SpecialWord(buffer, blockSize, 3) = 0 /\ id = 0)
              => specialType = SPEC_SECT_SEQUENCE

(***************************************************************************)
(* C13: the page LSN                                                       *)
(***************************************************************************)
\* C13: the LSN of a page is (pd_lsn.xlogid << 32) | pd_lsn.xrecoff: that
\* number is the one compared with the -x threshold (a page is left
\* undecoded exactly when -x is given and the number is below the
\* threshold) and the one written in the LSN tag, as its high and low
\* halves; for xlogid = 1 and xrecoff = 0x10 the tag reads 1/00000010.
C13_LsnReassembly ==
    "classify" \in steps =>
        LET high == buffer.xlogid
            low == buffer.xrecoff
            below == \/ high < afterThreshold[1]
                     \/ high = afterThreshold[1] /\ low < afterThreshold[2]
        IN /\ steps = {"classify"} <=> (BLOCK_SKIP_LSN \in blockOptions /\ below)
           /\ "header" \in steps /\ pageTags # <<>> =>
                 /\ pageTags[1].name =
                       "LSN: " \o FormatLsn(<<high, low>>)
                 /\ (high = 1 /\ low = 16) =>
                       pageTags[1].name = "LSN: 1/00000010"
                 /\ (high = 0 /\ low = 1) =>
                       pageTags[1].name = "LSN: 0/00000001"

\* -x 0/10: a page with LSN 1/10 is decoded and its tag reads 1/00000010
C13_Witness ==
    /\ BLOCK_SKIP_LSN \in blockOptions
    /\ afterThreshold = LsnAt
    /\ buffer.xlogid = 1 /\ buffer.xrecoff = 16
    /\ "header" \in steps
    /\ pageTags # <<>>
    /\ pageTags[1].name = "LSN: 1/00000010"

(***************************************************************************)
(* C14: the null bitmap in the attribute walk                              *)
(***************************************************************************)
\* C14 (amended): for a row-store tuple of ten columns decoded against a
\* -D list of ten fixed-width columns, the walk writes one tag for each
\* column that the null bitmap does not mark NULL, in column order, and none
\* for a NULL column; a column is marked NULL by a clear bit.  With bit 3
\* clear and the bits of the other nine columns set there are exactly 9
\* attribute tags, c0,c1,c2,c4..c9, four bytes each and back to back from
\* the start of the data, whatever length and alignment c3 is declared with.
C14_NullBitmapGating ==
    (/\ nrelatts = 10
     /\ bytesToFormat = blockSize
     /\ "body" \in steps
     /\ specialType = SPEC_SECT_NONE
     /\ Len(buffer.items) = 1
     /\ buffer.items[1].tup.natts = 10
     /\ "HEAP_HASNULL" \in buffer.items[1].tup.t_infomask) =>
        LET tup == buffer.items[1].tup
            base == pageOffset + buffer.items[1].lp_off + tup.t_hoff
            names == {attnamerel[i] : i \in 1..nrelatts}
            atts == SelectSeq(pageTags,
                       LAMBDA t : t.part = "tuple" /\ t.name \in names)
            present == {i \in 0..9 : i \in tup.t_bits}
            \* the k-th column that is present
            column(k) == CHOOSE i \in present :
                            Cardinality({j \in present : j < i}) = k - 1
        IN /\ Len(atts) = Cardinality(present)
           /\ \A k \in 1..Len(atts) : atts[k].name = attnamerel[column(k) + 1]
           /\ tup.t_bits = (0..9) \ {3} =>
                 /\ Len(atts) = 9
                 /\ [k \in 1..9 |-> atts[k].name] =
                       <<"c0", "c1", "c2", "c4", "c5", "c6", "c7", "c8", "c9">>
                 /\ \A k \in 1..9 : /\ atts[k].s = base + (4 * (k - 1))
                                    /\ atts[k].e = atts[k].s + 3
                 /\ ~pageErr

\* c3 declared eight bytes wide and NULL: nine tags
C14_Witness ==
    /\ nrelatts = 10
    /\ attlenrel[4] = 8
    /\ bytesToFormat = blockSize
    /\ "body" \in steps
    /\ Len(buffer.items) = 1
    /\ buffer.items[1].tup.t_bits = (0..9) \ {3}
    /\ Cardinality({i \in 1..Len(pageTags) :
                       pageTags[i].name \in {"c0", "c1", "c2", "c4", "c5",
                                             "c6", "c7", "c8", "c9"}}) = 9
    /\ \A i \in 1..Len(pageTags) : pageTags[i].name # "c3"

\* C14 as first stated: a null bitmap with bit 3 set, and no other bit,
\* yields the nine tags c0,c1,c2,c4..c9 and none for c3
C14_BitThreeSet ==
    (/\ nrelatts = 10
     /\ bytesToFormat = blockSize
     /\ "body" \in steps
     /\ Len(buffer.items) = 1
     /\ buffer.items[1].tup.natts = 10
     /\ "HEAP_HASNULL" \in buffer.items[1].tup.t_infomask
     /\ buffer.items[1].tup.t_bits = {3}) =>
        {pageTags[i].name : i \in 1..Len(pageTags)} \cap
            {"c0", "c1", "c2", "c3", "c4", "c5", "c6", "c7", "c8", "c9"}
          = {"c0", "c1", "c2", "c4", "c5", "c6", "c7", "c8", "c9"}

(***************************************************************************)
(* C15: entry tuples with a posting list on GIN leaf pages                 *)
(***************************************************************************)
\* C15 (amended): an index tuple on a GIN leaf page whose posting item
\* count N (the offset number of t_tid) is neither zero nor the posting tree
\* mark has the three fields of t_tid tagged as compressed flag, posting
\* offset and item count; the bytes from the posting offset to the end of
\* the tuple are one "posting list" tag, not N tags; and the key bytes
\* before the posting offset are tagged as the tuple's attributes: by the
\* walk over a one-column -D list when no error was recorded before (one
\* tag for a fixed-width column), with one "contents" tag otherwise.
C15_PostingList ==
    [][(/\ pc = "loop"
        /\ bytesToFormat' = blockSize
        /\ "body" \in steps'
        /\ specialType' = SPEC_SECT_INDEX_GIN
        /\ ~(currentBlock = 0 /\ segmentNumber = 0)
        /\ GinPageFlags(buffer', blockSize) = GIN_LEAF
        /\ Len(buffer'.items) = 1
        /\ buffer'.items[1].lp_flags = LP_NORMAL
        /\ buffer'.items[1].lp_len = buffer'.items[1].tup.t_info_size
        /\ buffer'.items[1].tup.t_tid.ip_posid \notin {0, 65535}
        /\ buffer'.items[1].tup.t_info_flags = {}) =>
          LET tup == buffer'.items[1].tup
              o == pageOffset' + buffer'.items[1].lp_off
              po == tup.t_tid.bi_lo
              tuple == SelectSeq(pageTags', LAMBDA t : t.part = "tuple")
              rest == SubSeq(tuple, 5, Len(tuple))
              errorBefore == exitCode # 0 \/ firstType' # specialType'
          IN /\ Len(tuple) >= 5
             /\ [i \in 1..4 |-> tuple[i].name] =
                   <<"t_tid->bi_hi/GinItupIsCompressed()",
                     "t_tid->bi_lo/GinGetPostingOffset()",
                     "t_tid->offsetNumber/GinGetNPosting()", "t_info">>
             /\ tuple[Len(tuple)] = Tag("tuple", "posting list", o + po,
                                        (o + tup.t_info_size) - 1)
             /\ \A i \in 1..(Len(tuple) - 1) : tuple[i].name # "posting list"
             /\ IF nrelatts = 1 /\ ~errorBefore
                THEN attlenrel[1] > 0 =>
                        /\ Len(tuple) = 6
                        /\ tuple[5] = Tag("tuple", attnamerel[1], o + 8,
                                          (o + 8 + attlenrel[1]) - 1)
                ELSE /\ Len(tuple) = 6
                     /\ tuple[5] = Tag("tuple", "contents", o + 8, (o + po) - 1)]_vars

\* a posting list of 3 items after a key decoded with the -D list 4,k,i
C15_Witness ==
    /\ nrelatts = 1
    /\ specialType = SPEC_SECT_INDEX_GIN
    /\ "body" \in steps
    /\ Len(buffer.items) = 1
    /\ buffer.items[1].tup.t_tid.ip_posid = 3
    /\ \E i \in 1..Len(pageTags) :
          /\ pageTags[i].name = "k"
          /\ i < Len(pageTags)
          /\ pageTags[i + 1].name = "posting list"

\* C15 as first stated: the tuple yields N row pointer tags for its posting
\* list and no tag for an attribute of the -D list
C15_RowPointerTags ==
    (/\ bytesToFormat = blockSize
     /\ "body" \in steps
     /\ specialType = SPEC_SECT_INDEX_GIN
     /\ processed # <<>>
     /\ ~(processed[Len(processed)].blkno = 0 /\ segmentNumber = 0)
     /\ GinPageFlags(buffer, blockSize) = GIN_LEAF
     /\ Len(buffer.items) = 1
     /\ buffer.items[1].lp_flags = LP_NORMAL
     /\ buffer.items[1].lp_len = buffer.items[1].tup.t_info_size
     /\ buffer.items[1].tup.t_tid.ip_posid \notin {0, 65535}) =>
        LET tup == buffer.items[1].tup
            o == pageOffset + buffer.items[1].lp_off
            list == {i \in 1..Len(pageTags) :
                        /\ pageTags[i].part = "tuple"
                        /\ pageTags[i].s >= o + GinGetPostingOffset(tup)}
        IN /\ Cardinality(list) = tup.t_tid.ip_posid
           /\ \A i \in 1..Len(pageTags) :
                 pageTags[i].part = "tuple" =>
                    pageTags[i].name \notin {attnamerel[j] : j \in 1..nrelatts}

(***************************************************************************)
(* C16: the byte range of a tag                                            *)
(***************************************************************************)
\* C16: every tag written for a block starts at or before the byte it ends
\* at, whatever the block holds.
C16_StartNotAfterEnd ==
    \A i \in 1..Len(pageTags) : pageTags[i].s <= pageTags[i].e


(***************************************************************************)
(* C17: the byte ranges of the header, line pointer and special tags       *)
(***************************************************************************)
\* C17: for a fully read page whose header passes the bounds tests, the
\* header tags tile bytes 0..23 of the page, line pointer tag i covers the
\* 4 bytes at 24 + 4 * (i - 1), the special section tags follow one another
\* without a gap inside [pd_special, blockSize), and no two of these tags
\* share a byte.
C17_NonOverlap ==
    (/\ "header" \in steps
     /\ bytesToFormat = blockSize
     /\ ~InvalidHeader(buffer, blockSize)) =>
        LET part(p) == SelectSeq(pageTags, LAMBDA t : t.part = p)
            header == part("header")
            slot == part("slot")
            special == part("special")
            all == header \o slot \o special
        IN /\ Len(header) = 8
           /\ header[1].s = pageOffset
           /\ \A i \in 1..7 : header[i + 1].s = header[i].e + 1
           /\ header[8].e = (pageOffset + SizeOfPageHeaderData) - 1
           /\ \A i \in 1..Len(slot) :
                 /\ slot[i].s = pageOffset + SizeOfPageHeaderData + (4 * (i - 1))
                 /\ slot[i].e = slot[i].s + 3
           /\ \A i \in 1..Len(special) :
                 /\ special[i].s >= pageOffset + buffer.pd_special
                 /\ special[i].e < pageOffset + blockSize
                 /\ i > 1 => special[i].s = special[i - 1].e + 1
           /\ \A i, j \in 1..Len(all) :
                 i < j => /\ all[i].s <= all[i].e
                          /\ all[i].e < all[j].s

C17_Witness ==
    /\ "special" \in steps
    /\ bytesToFormat = blockSize
    /\ ~InvalidHeader(buffer, blockSize)
    /\ ~pageErr
    /\ Cardinality({i \in 1..Len(pageTags) : pageTags[i].part = "slot"}) >= 2
    /\ Cardinality({i \in 1..Len(pageTags) : pageTags[i].part = "special"}) = 5
    /\ Cardinality({i \in 1..Len(pageTags) : pageTags[i].part = "header"}) = 8


(***************************************************************************)
(* C18: the bounds test of EmitXmlAttributesData                           *)
(***************************************************************************)
\* C18: with a -D list, every tag written for an attribute (its value, or
\* the header of a variable-length value) lies inside the item of a normal
\* or dead line pointer of the page: no attribute tag ends beyond the last
\* byte of its tuple.
C18_AttributeTagsInsideTuple ==
    ("body" \in steps /\ nrelatts > 0) =>
        LET names == {attnamerel[a] : a \in 1..nrelatts}
            hdrs == {n \o " - " \o h :
                       n \in names,
                       h \in {"varattrib_1b_e", "varattrib_1b", "va_4byte",
                              "va_compressed"}}
        IN \A i \in 1..Len(pageTags) :
              pageTags[i].name \in (names \cup hdrs) =>
                 \E k \in 1..Len(buffer.items) :
                    /\ buffer.items[k].lp_flags \in {LP_NORMAL, LP_DEAD}
                    /\ pageTags[i].s >= pageOffset + buffer.items[k].lp_off
                    /\ pageTags[i].e < pageOffset + buffer.items[k].lp_off
                                          + buffer.items[k].lp_len


(***************************************************************************)
(* C19: the item loop of EmitXmlTuples                                     *)
(***************************************************************************)
\* C19: on a page whose line pointers hold row or index tuples, the tuple
\* decoder runs for a line pointer exactly when it is LP_NORMAL or LP_DEAD,
\* its length is not 0 and offset + length is within both the block size and
\* the bytes read.  An LP_NORMAL pointer of length 0, an LP_REDIRECT or
\* LP_UNUSED pointer of another length and a frame that overruns the block
\* or the bytes read set the error; a pointer of length 0 that is not
\* LP_NORMAL is passed over without an error.  The line pointers after it
\* are decoded in every case.
C19_ItemLoop ==
    (/\ "body" \in steps
     /\ \E i \in 1..Len(pageTags) : pageTags[i].part = "slot"
     /\ PageGetMaxOffsetNumber(buffer) <= blockSize
     /\ specialType \notin {SPEC_SECT_INDEX_SPGIST, SPEC_SECT_INDEX_BRIN}) =>
        LET item(k) == PageGetItemId(buffer, k)
            inside(k) == /\ item(k).lp_off + item(k).lp_len <= blockSize
                         /\ item(k).lp_off + item(k).lp_len <= bytesToFormat
            stored(k) == /\ item(k).lp_flags \in {LP_NORMAL, LP_DEAD}
                         /\ item(k).lp_len # 0
            \* the first tag of a tuple starts at the first byte of its item
            decoded(k) == \E i \in 1..Len(pageTags) :
                             /\ pageTags[i].name \in
                                   {"xmin", "t_tid->bi_hi",
                                    "t_tid->bi_hi/GinItupIsCompressed()"}
                             /\ pageTags[i].s = pageOffset + item(k).lp_off
            refused(k) == \/ item(k).lp_flags = LP_NORMAL /\ item(k).lp_len = 0
                          \/ /\ item(k).lp_flags \in {LP_REDIRECT, LP_UNUSED}
                             /\ item(k).lp_len # 0
                          \/ stored(k) /\ ~inside(k)
            all == 1..PageGetMaxOffsetNumber(buffer)
            plain == /\ nrelatts = 0
                     /\ blockOptions \cap {BLOCK_CHECKSUMS, BLOCK_ZEROSUMS} = {}
                     /\ ~InvalidHeader(buffer, blockSize)
                     /\ specialType = firstType
                     /\ specialType \notin {SPEC_SECT_ERROR_UNKNOWN,
                                            SPEC_SECT_ERROR_BOUNDARY}
        IN /\ \A k \in all : decoded(k) <=> (stored(k) /\ inside(k))
           /\ (\E k \in all : refused(k)) => pageErr
           /\ (plain /\ \A k \in all : ~refused(k)) => ~pageErr

\* an LP_NORMAL line pointer of length 0 set the error and the tuple of the
\* line pointer after it was decoded
C19_Witness ==
    /\ "body" \in steps
    /\ Len(buffer.items) = 2
    /\ buffer.items[1] = ItemId(0, 0, LP_NORMAL, NoTuple)
    /\ pageErr
    /\ \E i \in 1..Len(pageTags) :
          /\ pageTags[i].name = "xmin"
          /\ pageTags[i].s = pageOffset + buffer.items[2].lp_off

\* C19 as first stated: an LP_DEAD line pointer of length 0 sets the error
\* as an LP_NORMAL one does
C19_DeadZeroLengthIsError ==
    (/\ "body" \in steps
     /\ \E i \in 1..Len(pageTags) : pageTags[i].part = "slot"
     /\ PageGetMaxOffsetNumber(buffer) <= blockSize) =>
        \A k \in 1..PageGetMaxOffsetNumber(buffer) :
           (/\ PageGetItemId(buffer, k).lp_flags \in {LP_NORMAL, LP_DEAD}
            /\ PageGetItemId(buffer, k).lp_len = 0) => pageErr


(***************************************************************************)
(* C20: the metapage                                                       *)
(***************************************************************************)
\* C20: when the body of a page is decoded, block 0 of segment 0 of a
\* B-tree, hash, GIN, SP-GiST or BRIN file gets the tags of its metapage
\* struct, starting right after the page header, and no line pointer and no
\* tuple tag; block 0 of a heap, sequence or GiST file gets no metapage tag
\* and one tag per line pointer (none on a deleted GiST page); a block that
\* is not block 0 of segment 0 gets no metapage tag.
C20_MetaPage ==
    "body" \in steps =>
        LET blkno == processed[Len(processed)].blkno
            part(p) == SelectSeq(pageTags, LAMBDA t : t.part = p)
            meta == part("meta")
            magic == CASE specialType = SPEC_SECT_INDEX_BTREE -> "btm_magic"
                       [] specialType = SPEC_SECT_INDEX_HASH -> "hashm_magic"
                       [] specialType = SPEC_SECT_INDEX_GIN -> "head"
                       [] specialType = SPEC_SECT_INDEX_SPGIST -> "magicNumber"
                       [] specialType = SPEC_SECT_INDEX_BRIN -> "brinMagic"
                       [] OTHER -> ""
        IN IF blkno = 0 /\ segmentNumber = 0
           THEN /\ magic # "" =>
                     /\ meta # <<>>
                     /\ meta[1].name = magic
                     /\ meta[1].s = pageOffset + MAXALIGN(SizeOfPageHeaderData)
                     /\ \A i \in 1..(Len(meta) - 1) : meta[i + 1].s = meta[i].e + 1
                     /\ part("slot") = <<>>
                     /\ part("tuple") = <<>>
                /\ specialType \in {SPEC_SECT_NONE, SPEC_SECT_SEQUENCE,
                                    SPEC_SECT_INDEX_GIST} =>
                     /\ meta = <<>>
                     /\ \/ Len(part("slot")) = PageGetMaxOffsetNumber(buffer)
                        \/ /\ specialType = SPEC_SECT_INDEX_GIST
                           /\ HasBit(GistPageFlags(buffer, blockSize), F_DELETED)
           ELSE meta = <<>>

\* block 0 of the first segment of a B-tree file: a page whose pd_lower
\* leaves room for a line pointer got the metapage tags and no line pointer tag
C20_Witness ==
    /\ "body" \in steps
    /\ specialType = SPEC_SECT_INDEX_BTREE
    /\ processed[Len(processed)].blkno = 0
    /\ segmentNumber = 0
    /\ PageGetMaxOffsetNumber(buffer) >= 1
    /\ \E i \in 1..Len(pageTags) : pageTags[i].name = "btm_magic"
    /\ \A i \in 1..Len(pageTags) : pageTags[i].part # "slot"


(***************************************************************************)
(* C21: a run whose options are valid ends, whatever the file holds, and   *)
(* has then written one preamble and one footer, the tags in between (a    *)
(* tag is written only after the preamble and before the footer), also     *)
(* when the seek to the start block fails, the file ends early or the last *)
(* page is partial; a run whose options are not valid writes no preamble,  *)
(* no tag and no footer, whether it exits or is killed while the command   *)
(* line is read                                                            *)
(***************************************************************************)
C21_OneDocument ==
    /\ [](pc \in {"exit", "killed"} =>
            IF pc = "exit" /\ validOptions = OPT_RC_VALID
            THEN document = [preamble |-> 1, footer |-> 1]
            ELSE document = [preamble |-> 0, footer |-> 0] /\ tagNumber = 0)
    /\ [][/\ tagNumber' # tagNumber =>
               document = [preamble |-> 1, footer |-> 0] /\ document' = document
          /\ document'.preamble # document.preamble =>
               document = [preamble |-> 0, footer |-> 0] /\ tagNumber = 0
          /\ document'.footer # document.footer =>
               document = [preamble |-> 1, footer |-> 0] /\ pc' = "exit"]_vars
    /\ <>(pc \in {"exit", "killed"})
    /\ [](pc # "main" /\ validOptions = OPT_RC_VALID => <>(pc = "exit"))

\* a run that ended after a partial last page, tags written, footer written
C21_Witness ==
    /\ pc = "exit"
    /\ validOptions = OPT_RC_VALID
    /\ Len(processed) >= 2
    /\ processed[Len(processed)].n < blockSize
    /\ tagNumber > 0
    /\ document = [preamble |-> 1, footer |-> 1]


(***************************************************************************)
(* C22: a row tuple with more attributes than the -D list has columns      *)
(***************************************************************************)
\* the tags of the columns of the -D list that start in the data of the
\* tuple of line pointer k of the page in buffer
AttributeTagsOf(k) ==
    LET item == PageGetItemId(buffer, k)
        first == pageOffset + item.lp_off + item.tup.t_hoff
        last == (pageOffset + item.lp_off + item.lp_len) - 1
    IN {i \in 1..Len(pageTags) :
          /\ pageTags[i].part = "tuple"
          /\ pageTags[i].name \in {attnamerel[c] : c \in 1..nrelatts}
          /\ pageTags[i].s >= first
          /\ pageTags[i].s <= last}

\* line pointer k of the page in buffer has a row tuple that the item loop
\* decodes and that has more attributes than the -D list has columns
TooManyAttributes(k) ==
    LET item == PageGetItemId(buffer, k)
    IN /\ item.lp_flags \in {LP_NORMAL, LP_DEAD}
       /\ item.lp_len # 0
       /\ item.lp_off + item.lp_len <= blockSize
       /\ item.lp_off + item.lp_len <= bytesToFormat
       /\ item.tup.k = "heap"
       /\ item.tup.natts > nrelatts

HeaderCutShort ==
    \/ bytesToFormat < SizeOfPageHeaderData
    \/ /\ PageGetMaxOffsetNumber(buffer) > 0
       /\ bytesToFormat < SizeOfPageHeaderData
                            + (PageGetMaxOffsetNumber(buffer) * SizeOfItemIdData)

\* C24: when EmitXmlPageHeader is called for a page and the bytes read do not
\* cover the 24 bytes of the header, or cover them and not the line pointer
\* array, the error is set and the page gets no tag but those of the header
\* fields (none at all when the 24 bytes were not read): no line pointer,
\* tuple, metapage or special section tag.
C24_PartialHeaderAbandonsPage ==
    ("header" \in steps /\ HeaderCutShort) =>
        /\ pageErr
        /\ exitCode = 1
        /\ steps \cap {"body", "special"} = {}
        /\ \A i \in 1..Len(pageTags) : pageTags[i].part = "header"
        /\ Len(pageTags) = IF bytesToFormat < SizeOfPageHeaderData
                           THEN 0 ELSE Len(PageHeaderFields)

\* 24 bytes read of a page that declares a line pointer: the header tags
\* and the error
C24_Witness ==
    /\ "header" \in steps
    /\ bytesToFormat = SizeOfPageHeaderData
    /\ PageGetMaxOffsetNumber(buffer) > 0
    /\ pageErr
    /\ Len(pageTags) = Len(PageHeaderFields)
    /\ Len(pageTags) > 0


(***************************************************************************)
(* C25: the attributes of index tuples and the error history of the run    *)
(***************************************************************************)
\* a tag of the first column of the -D list on the bytes from s
FirstColumnTagAt(tags, s) ==
    \E i \in 1..Len(tags) :
       /\ tags[i].part = "tuple"
       /\ tags[i].name = attnamerel[1]
       /\ tags[i].s = s
       /\ tags[i].e = (s + attlenrel[1]) - 1

\* a "contents" tag that starts at s
ContentsTagAt(tags, s) ==
    \E i \in 1..Len(tags) : tags[i].name = "contents" /\ tags[i].s = s

\* a tag of a column of the -D list
ColumnTag(tags) ==
    \E i \in 1..Len(tags) :
       tags[i].part = "tuple" /\ tags[i].name \in {attnamerel[c] : c \in 1..nrelatts}

\* C25: a pass of the loop that reads a whole page with a -D list whose first
\* column is 4 or 8 bytes wide and decodes the tuple of its first line
\* pointer (the page is not a metapage).  On a B-tree page, when exitCode
\* was nonzero before the pass, or the page differs from the first type or
\* has an invalid header, the index tuple gets one "contents" tag on its
\* data and no column tag is written; when exitCode was 0 and the page set
\* no error before its tuple, it gets the tag of the first column on its
\* data and no "contents" tag.  On a row page the tuple (no null bitmap, no
\* more attributes than columns) gets the tag of the first column also
\* when exitCode was nonzero before the pass.
C25_IndexAttributesNeedCleanRun ==
    [][(/\ pc = "loop"
        /\ "body" \in steps'
        /\ \E i \in 1..Len(pageTags') : pageTags'[i].part = "slot"
        /\ nrelatts > 0
        /\ attlenrel[1] \in {4, 8}
        /\ bytesToFormat' = blockSize
        /\ Len(buffer'.items) >= 1
        /\ buffer'.items[1].lp_flags = LP_NORMAL
        /\ buffer'.items[1].lp_len >= 16
        /\ buffer'.items[1].lp_off + buffer'.items[1].lp_len <= blockSize) =>
           LET item == buffer'.items[1]
               start == pageOffset' + item.lp_off
           IN /\ (specialType' = SPEC_SECT_INDEX_BTREE /\ item.tup.k = "index") =>
                   /\ (\/ exitCode # 0
                       \/ firstType' # specialType'
                       \/ InvalidHeader(buffer', blockSize)) =>
                         /\ ContentsTagAt(pageTags', start + 8)
                         /\ ~ColumnTag(pageTags')
                   /\ (/\ exitCode = 0
                       /\ firstType' = specialType'
                       /\ ~InvalidHeader(buffer', blockSize)
                       /\ blockOptions \cap {BLOCK_CHECKSUMS, BLOCK_ZEROSUMS} = {}) =>
                         /\ FirstColumnTagAt(pageTags', start + 8)
                         /\ ~ContentsTagAt(pageTags', start + 8)
              /\ (/\ specialType' = SPEC_SECT_NONE
                  /\ item.tup.k = "heap"
                  /\ item.tup.natts <= nrelatts
                  /\ "HEAP_HASNULL" \notin item.tup.t_infomask
                  /\ exitCode # 0) =>
                   /\ FirstColumnTagAt(pageTags', start + item.tup.t_hoff)
                   /\ ~ContentsTagAt(pageTags', start + item.tup.t_hoff)]_vars

\* the second page of a run with a -D list is a B-tree page, the first page
\* set the error, and the index tuple has a "contents" tag
C25_Witness ==
    /\ Len(processed) = 2
    /\ processed[1].err
    /\ nrelatts > 0
    /\ attlenrel[1] = 4
    /\ "body" \in steps
    /\ specialType = SPEC_SECT_INDEX_BTREE
    /\ bytesToFormat = blockSize
    /\ Len(buffer.items) = 1
    /\ buffer.items[1].tup.k = "index"
    /\ ContentsTagAt(pageTags, pageOffset + buffer.items[1].lp_off + 8)
    /\ ~ColumnTag(pageTags)


(***************************************************************************)
(* C26: the arrays of the -D list                                          *)
(***************************************************************************)
\* C26: once the command line has been read, no value has been stored at
\* index MaxTupleAttributeNumber or beyond of attlenrel, attnamerel or
\* attalignrel (a list of more columns is refused before anything of the
\* column in excess is stored), and a -D list was accepted only when it has
\* at least one column and three tokens for each column.
C26_StoresWithinCapacity ==
    pc # "main" =>
       /\ Len(attlenrel) <= MaxTupleAttributeNumber
       /\ Len(attnamerel) <= MaxTupleAttributeNumber
       /\ Len(attalignrel) <= MaxTupleAttributeNumber
       /\ (validOptions = OPT_RC_VALID /\ BLOCK_DECODE \in blockOptions) =>
             /\ nrelatts >= 1
             /\ Len(attlenrel) = nrelatts
             /\ Len(attnamerel) = nrelatts
             /\ Len(attalignrel) = nrelatts


(***************************************************************************)
(* C27: the posting list segments of a GIN posting tree leaf page          *)
(***************************************************************************)
\* the page in buffer was read in full and is a compressed GIN posting
\* tree leaf page
GinCompressedLeaf ==
    /\ "body" \in steps
    /\ bytesToFormat = blockSize
    /\ specialType = SPEC_SECT_INDEX_GIN
    /\ HasBit(GinPageFlags(buffer, blockSize), GIN_DATA)
    /\ HasBit(GinPageFlags(buffer, blockSize), GIN_LEAF)
    /\ HasBit(GinPageFlags(buffer, blockSize), GIN_COMPRESSED)
    /\ ~HasBit(GinPageFlags(buffer, blockSize), GIN_DELETED)

\* C27: on a compressed GIN posting tree leaf page every segment tag lies
\* within the posting list, the bytes from GinDataOffset up to pd_lower, so
\* a page whose posting list has no bytes has no segment tag.
C27_SegmentsWithinTotal ==
    GinCompressedLeaf =>
       \A i \in 1..Len(pageTags) :
          pageTags[i].part = "tuple" =>
             /\ pageTags[i].s >= pageOffset + GinDataOffset
             /\ pageTags[i].e <= (pageOffset + buffer.pd_lower) - 1


(***************************************************************************)
(* C28: the ids of the tags                                                *)
(***************************************************************************)
\* the tags written for the pages read so far
TagsWritten ==
    LET RECURSIVE Sum(_)
        Sum(k) == IF k = 0 THEN 0 ELSE processed[k].tags + Sum(k - 1)
    IN Sum(Len(processed))

\* C28: tagNumber, the id of the next tag, is the number of tags written so
\* far in the run: it is 0 at the start, a pass of the loop adds the number
\* of tags it writes, whichever emitters write them, and nothing else
\* changes it, so the ids are 0, 1, 2, ... without a gap.  A tuple tag whose
\* start is after its end is not among the tags written and has no id; a
\* varlena value whose tag is left out this way, after the tag of its
\* header, leaves the error set.
C28_TagIdsGapFree ==
    /\ [](tagNumber = TagsWritten)
    /\ [](processed = <<>> => tagNumber = 0)
    /\ [][tagNumber' = tagNumber + (IF processed' # processed THEN Len(pageTags') ELSE 0)]_vars
    /\ [](\A i \in 1..Len(pageTags) : pageTags[i].s <= pageTags[i].e)
    /\ []("body" \in steps =>
            \A i \in 1..Len(pageTags) :
               (/\ pageTags[i].name = "v - va_4byte"
                /\ \A j \in 1..Len(pageTags) : pageTags[j].name # "v") => pageErr)

\* the second page of a run: its first tag has the id after the last tag of
\* the first page, and the tag of a varlena value was refused
C28_Witness ==
    /\ Len(processed) = 2
    /\ processed[1].tags > 0
    /\ processed[2].tags > 0
    /\ tagNumber = processed[1].tags + processed[2].tags
    /\ "body" \in steps
    /\ \E i \in 1..Len(pageTags) : pageTags[i].name = "v - va_4byte"
    /\ \A j \in 1..Len(pageTags) : pageTags[j].name # "v"
    /\ pageErr


(***************************************************************************)
(* C29: the tag of a leaf page that -l leaves out                          *)
(***************************************************************************)
\* C29: the one tag written for a leaf page under -l covers the bytes of
\* that block, from blockSize * block to blockSize * (block + 1) - 1, for
\* every block size that GetBlockSize returns, and so ends before the first
\* byte of the next block.
C29_LeafTagCoversBlock ==
    "leaf" \in steps =>
       /\ Len(pageTags) = 1
       /\ pageTags[1].s = pageOffset
       /\ pageOffset = blockSize * processed[Len(processed)].blkno
       /\ pageTags[1].e = (pageOffset + blockSize) - 1
       /\ pageTags[1].e < blockSize * (processed[Len(processed)].blkno + 1)


(***************************************************************************)
(* C30: pages that were never initialized                                  *)
(***************************************************************************)
\* C30: a pass of the loop that leaves a page with pd_upper = 0 in the
\* buffer writes no tag, sets no error, does not classify the page and
\* leaves firstType, specialType and exitCode as they were; the loop goes on
\* with the next block unless the range of -R ends here.
C30_NewPageSkipped ==
    [][(pc = "loop" /\ processed' # processed /\ buffer'.pd_upper = 0) =>
          /\ pageTags' = <<>>
          /\ tagNumber' = tagNumber
          /\ ~pageErr'
          /\ exitCode' = exitCode
          /\ errorRecorded' = errorRecorded
          /\ steps' = {}
          /\ firstType' = firstType
          /\ specialType' = specialType
          /\ seenTypes' = seenTypes
          /\ IF BLOCK_RANGE \in blockOptions /\ currentBlock >= blockEnd
             THEN pc' = "footer"
             ELSE pc' = "loop" /\ currentBlock' = currentBlock + 1]_vars

\* the second block of a file is a page of zeroes: nothing written for it,
\* the type of the first page kept, no error in the run
C30_Witness ==
    /\ Len(processed) = 2
    /\ processed[1].tags > 0
    /\ processed[2].tags = 0
    /\ processed[2].n = blockSize
    /\ buffer.pd_upper = 0
    /\ steps = {}
    /\ firstType = SPEC_SECT_NONE
    /\ exitCode = 0
    /\ pc = "loop"
    /\ currentBlock = 2

====
